---- MODULE Spec2Model ----
(***************************************************************************)
(* Model of the eds-calendar-sync engine: two calendars (work, personal),  *)
(* the pair-scoped sync_state table, and the three sync algorithms         *)
(* run_one_way_to_personal (forward), run_one_way_to_work (reverse) and    *)
(* run_two_way (bidirectional), each executed as one batch pass.           *)
(*                                                                         *)
(* A calendar is the list get_all_events() returns.  An event is a record  *)
(* of the iCalendar properties the engine reads or writes.  A run is a     *)
(* fold over the fetched lists that threads a context record (calendars,   *)
(* table, counters) through the handlers in program order.                 *)
(***************************************************************************)
EXTENDS Integers, Sequences, FiniteSets, TLC

\* ------------------------------------------------------------------------
\* Bounds
\* ------------------------------------------------------------------------
MaxSteps == 3        \* number of runs / external changes in one behaviour
MaxFailAt == 1       \* a failure or a kill is injected at one of the first MaxFailAt calendar calls
MaxFaults == 1       \* number of runs of one behaviour that a failure or a kill strikes
MaxOpSteps == 2      \* number of steps of one behaviour of the second specification
MaxStoreOps == 2     \* number of calls on the shared database file in one behaviour

\* ------------------------------------------------------------------------
\* Events
\* ------------------------------------------------------------------------
NoFp == <<"fp", 0, 0>>

\* compound state key "<uid>::RID::<rid>" (to_personal.py) / plain uid (rid = 0)
Key(uid, rid) == <<uid, rid>>

FirstMirrorUid == 100

Event(uid, rid, start, summary, status, transp, rrule, exdates) ==
    [uid |-> uid, rid |-> rid, start |-> start, summary |-> summary,
     status |-> status, transp |-> transp, rrule |-> rrule, exdates |-> exdates,
     managed |-> FALSE, fp |-> NoFp, xp |-> TRUE, seq |-> 0]

Plain(uid, summary) == Event(uid, 0, 1, summary, "none", "none", 0, {})

RECURSIVE SeqToSet(_)
SeqToSet(s) == IF s = <<>> THEN {} ELSE {Head(s)} \cup SeqToSet(Tail(s))

\* EventSanitizer.is_managed_event
is_managed_event(e) == e.managed

\* utils.is_event_cancelled
is_event_cancelled(e) == e.status = "cancelled"

\* utils.is_free_time: absent TRANSP is opaque
is_free_time(e) == e.transp = "transparent"

\* utils.has_valid_occurrences: a daily series of e.rrule occurrences from
\* e.start; FALSE only when every occurrence the expansion visits is
\* excluded.  The expansion stops after IterationCap occurrences.
Occurrences(e) == {e.start + k : k \in 0..(e.rrule - 1)}

IterationCap == 500

Expanded(e) ==
    {e.start + k : k \in 0..((IF e.rrule < IterationCap THEN e.rrule ELSE IterationCap) - 1)}

\* an expansion that never stops early
has_valid_occurrences_Always(e) == TRUE

has_valid_occurrences(e) ==
    IF e.rrule = 0 THEN TRUE
    ELSE IF e.exdates = {} THEN TRUE
    ELSE \E d \in Expanded(e) : d \notin e.exdates

\* utils.strip_exdates_for_dates
strip_exdates_for_dates(e, dates) == [e EXCEPT !.exdates = @ \ dates]

\* utils.compute_hash: the event with the volatile properties removed; the
\* digest itself is taken to be collision free
compute_hash(e) == [e EXCEPT !.seq = 0]

\* utils.compute_source_fingerprint
compute_source_fingerprint(key) == <<"fp", key[1], key[2]>>

\* sanitizer.py: first occurrence of the series that is not excluded
FirstValid(e) ==
    IF e.rrule # 0 /\ e.start \in e.exdates
          /\ \E d \in Occurrences(e) : d \notin e.exdates
    THEN CHOOSE d \in Occurrences(e) :
            d \notin e.exdates /\ \A d2 \in Occurrences(e) : d2 \notin e.exdates => d <= d2
    ELSE e.start

\* the fingerprint tag the callers ask for with source_uid=...
FingerprintTag(source_key) == compute_source_fingerprint(source_key)

\* a sanitizer that keeps the title in every mode
sanitize_KeepsTitle(e, new_uid, mode, fp) ==
    [uid |-> new_uid, rid |-> 0, start |-> e.start, summary |-> e.summary,
     status |-> "none", transp |-> e.transp, rrule |-> e.rrule,
     exdates |-> e.exdates, managed |-> TRUE, fp |-> fp, xp |-> FALSE, seq |-> e.seq]

\* EventSanitizer.sanitize(ical, new_uid, mode): new uid, RECURRENCE-ID,
\* STATUS and the X- properties stripped, "Busy" title in busy mode, managed
\* tag, start advanced past an excluded first occurrence.  fp is the
\* fingerprint tag (NoFp when the caller passes no source_uid).
sanitize(e, new_uid, mode, fp) ==
    [uid |-> new_uid, rid |-> 0, start |-> FirstValid(e),
     summary |-> IF mode = "busy" THEN "Busy" ELSE e.summary,
     status |-> "none", transp |-> e.transp, rrule |-> e.rrule,
     exdates |-> e.exdates, managed |-> TRUE, fp |-> fp, xp |-> FALSE, seq |-> e.seq]

\* ------------------------------------------------------------------------
\* Run context: what one invocation of the program reads and writes.
\*   work, pers : the two calendars        db  : the connection's view of sync_state
\*   dur        : the committed table      n   : calendar mutation calls issued so far
\*   halt       : "no", "crash" (process killed) or "raise" (uncaught exception)
\*   res, uid   : outcome of the last calendar call
\*   rewrite    : the calendars whose backend assigns its own uid on create
\*   dry_run    : config.dry_run of the invocation
\* A plan fixes the environment of one run: the call that fails with an
\* error other than NotFound (failAt) and the call after which the process
\* is killed (crashAt); 0 means none.  failAlso is a second failing call.
\* ------------------------------------------------------------------------
ZeroStats == [added |-> 0, modified |-> 0, deleted |-> 0, errors |-> 0]
ZeroCalls == [work |-> [create |-> 0, modify |-> 0, remove |-> 0],
              pers |-> [create |-> 0, modify |-> 0, remove |-> 0]]
NoPlan == [failAt |-> 0, crashAt |-> 0, failAlso |-> 0]

\* the call fails with an error other than NotFound
Fails(plan, n) == n = plan.failAt \/ n = plan.failAlso
NoEvent == [uid |-> 0]

CalOf(ctx, c) == IF c = "work" THEN ctx.work ELSE ctx.pers
SetCal(ctx, c, s) == IF c = "work" THEN [ctx EXCEPT !.work = s] ELSE [ctx EXCEPT !.pers = s]
Bump(ctx, c, kind) == [ctx EXCEPT !.n = @ + 1, !.calls[c][kind] = @ + 1]
HasUid(cal, key) == key[2] = 0 /\ \E i \in 1..Len(cal) : cal[i].uid = key[1]
Killed(ctx, plan) == IF ctx.n = plan.crashAt THEN [ctx EXCEPT !.halt = "crash"] ELSE ctx

\* SyncStats counters
\* a counter whose error case lets the exception leave the run
Count_Abort(ctx, f) ==
    IF ctx.halt # "no" THEN ctx
    ELSE IF f = "errors" THEN [ctx EXCEPT !.halt = "raise"]
    ELSE [ctx EXCEPT !.stats[f] = @ + 1]

Count(ctx, f) == IF ctx.halt # "no" THEN ctx ELSE [ctx EXCEPT !.stats[f] = @ + 1]

\* uuid.uuid4()
NewUid(ctx) == ctx.next
TakeUid(ctx) == IF ctx.halt # "no" THEN ctx ELSE [ctx EXCEPT !.next = @ + 1]

\* what the backend keeps of a component it is handed: it adds its own
\* X- properties and restamps it
Stored(ev) == [ev EXCEPT !.xp = TRUE, !.seq = 1]

\* the uid create_object_sync assigns: a backend that rewrites identifiers
\* (ctx.rewrite holds its calendar) replaces the supplied one
AssignedUid(ctx, c, uid) == IF c \in ctx.rewrite THEN uid + FirstMirrorUid ELSE uid

\* EDSCalendarClient.create_event: returns the uid the backend assigned
create_event(ctx, plan, c, ev) ==
    IF ctx.halt # "no" THEN ctx
    ELSE LET c1 == Bump(ctx, c, "create")
             out_uid == AssignedUid(ctx, c, ev.uid) IN
         IF Fails(plan, c1.n) THEN [c1 EXCEPT !.res = "other"]
         ELSE Killed([SetCal(c1, c, Append(CalOf(c1, c), [Stored(ev) EXCEPT !.uid = out_uid]))
                      EXCEPT !.res = "ok", !.uid = out_uid], plan)

\* EDSCalendarClient.modify_event: targets the uid embedded in the component
modify_event(ctx, plan, c, ev) ==
    IF ctx.halt # "no" THEN ctx
    ELSE LET c1 == Bump(ctx, c, "modify")
             cal == CalOf(c1, c) IN
         IF Fails(plan, c1.n) THEN [c1 EXCEPT !.res = "other"]
         ELSE IF ~HasUid(cal, Key(ev.uid, 0)) THEN [c1 EXCEPT !.res = "notfound"]
         ELSE Killed([SetCal(c1, c, [i \in 1..Len(cal) |->
                          IF cal[i].uid = ev.uid /\ cal[i].rid = 0 THEN Stored(ev) ELSE cal[i]])
                      EXCEPT !.res = "ok"], plan)

\* EDSCalendarClient.remove_event(uid), rid = None: removes the whole object
remove_event(ctx, plan, c, key) ==
    IF ctx.halt # "no" THEN ctx
    ELSE LET c1 == Bump(ctx, c, "remove")
             cal == CalOf(c1, c) IN
         IF Fails(plan, c1.n) THEN [c1 EXCEPT !.res = "other"]
         ELSE IF ~HasUid(cal, key) THEN [c1 EXCEPT !.res = "notfound"]
         ELSE Killed([SetCal(c1, c, SelectSeq(cal, LAMBDA e : e.uid # key[1]))
                      EXCEPT !.res = "ok"], plan)

\* EDSCalendarClient.get_event: the stored copy, or None
get_event(cal, key) ==
    IF key[2] = 0 /\ \E i \in 1..Len(cal) : cal[i].uid = key[1] /\ cal[i].rid = 0
    THEN cal[CHOOSE i \in 1..Len(cal) : cal[i].uid = key[1] /\ cal[i].rid = 0]
    ELSE NoEvent

\* ------------------------------------------------------------------------
\* StateDatabase (db.py), rows of the current calendar pair in rowid order
\* ------------------------------------------------------------------------
HasSource(db, src) == \E i \in 1..Len(db) : db[i].src = src

\* plain INSERT under UNIQUE(work_calendar_id, personal_calendar_id, source_uid)
insert_bidirectional(ctx, src, tgt, sh, th, origin) ==
    IF ctx.halt # "no" THEN ctx
    ELSE IF HasSource(ctx.db, src) THEN [ctx EXCEPT !.halt = "raise"]
    ELSE [ctx EXCEPT !.db = Append(@, [src |-> src, tgt |-> tgt, sh |-> sh, th |-> th,
                                       origin |-> origin])]

update_hashes(ctx, src, tgt, sh, th) ==
    IF ctx.halt # "no" THEN ctx
    ELSE [ctx EXCEPT !.db = [i \in 1..Len(@) |->
             IF @[i].src = src /\ @[i].tgt = tgt
             THEN [@[i] EXCEPT !.sh = sh, !.th = th] ELSE @[i]]]

delete(ctx, src) ==
    IF ctx.halt # "no" THEN ctx
    ELSE [ctx EXCEPT !.db = SelectSeq(@, LAMBDA r : r.src # src)]

\* a delete_by_pair that leaves the row in the table
delete_by_pair_Keeps(ctx, src, tgt) == ctx

delete_by_pair(ctx, src, tgt) ==
    IF ctx.halt # "no" THEN ctx
    ELSE [ctx EXCEPT !.db = SelectSeq(@, LAMBDA r : ~(r.src = src /\ r.tgt = tgt))]

clear_all(ctx) == IF ctx.halt # "no" THEN ctx ELSE [ctx EXCEPT !.db = <<>>]

commit(ctx) == IF ctx.halt # "no" THEN ctx ELSE [ctx EXCEPT !.dur = ctx.db]

\* the commit that ends a run: "if not config.dry_run: state_db.commit()"
FinalCommit(ctx) == IF ctx.dry_run THEN ctx ELSE commit(ctx)

\* origin = 'source' rows, keyed by source_uid
get_all_state(db) == SelectSeq(db, LAMBDA r : r.origin = "source")
\* origin = 'target' rows, keyed by target_uid
get_all_state_by_target(db) == SelectSeq(db, LAMBDA r : r.origin = "target")
get_all_state_bidirectional(db) == db
get_by_target_uid(db, key) == \E i \in 1..Len(db) : db[i].tgt = key
get_by_source_uid(db, key) == \E i \in 1..Len(db) : db[i].src = key

\* a dict built from a list of entries and the list of their keys: the
\* last entry with the key wins
InState(keys, key) == \E i \in 1..Len(keys) : keys[i] = key
Lookup(entries, keys, key) ==
    entries[CHOOSE i \in 1..Len(keys) :
               keys[i] = key /\ \A j \in (i + 1)..Len(keys) : keys[j] # key]
SrcOf(rows) == [i \in 1..Len(rows) |-> rows[i].src]
TgtOf(rows) == [i \in 1..Len(rows) |-> rows[i].tgt]

\* utils.build_orphan_index: fingerprint -> uid of the managed events of the
\* calendar that carry a fingerprint and have no row; later events overwrite
IsOrphan_Never(e, db) == FALSE

IsOrphan(e, db) ==
    /\ is_managed_event(e)
    /\ e.fp # NoFp
    /\ ~get_by_target_uid(db, Key(e.uid, 0))
    /\ ~get_by_source_uid(db, Key(e.uid, 0))

build_orphan_index(cal, db) == SelectSeq(cal, LAMBDA e : IsOrphan(e, db))

FpOf(index) == [i \in 1..Len(index) |-> index[i].fp]

\* ------------------------------------------------------------------------
\* SyncConfig and the environment of the fetches of one run.
\*   refresh : --refresh was given
\*   fetch   : the get_all_events call that fails with CalendarSyncError:
\*             "none", "scan" (metadata scan of refresh/clear), "orphan"
\*             (orphan scan), "work" or "personal" (main fetch of the run)
\* ------------------------------------------------------------------------
DefaultConfig == [refresh |-> FALSE, fetch |-> "none"]

\* get_all_events raised: the exception leaves the run
FetchFailed(ctx) == IF ctx.halt # "no" THEN ctx ELSE [ctx EXCEPT !.halt = "raise"]

\* a metadata scan that takes every event of the calendar
ManagedUids_All(cal) == [i \in 1..Len(cal) |-> Key(cal[i].uid, 0)]

\* uids of the managed events a metadata scan finds
ManagedUids(cal) ==
    LET managed == SelectSeq(cal, LAMBDA e : is_managed_event(e))
    IN [i \in 1..Len(managed) |-> Key(managed[i].uid, 0)]

\* values of a dict built from rows: one entry per key, in order of first
\* appearance, holding the value of the last row with the key
DictValues(keys, values) ==
    LET firsts == SelectSeq([i \in 1..Len(keys) |-> i],
                            LAMBDA i : \A j \in 1..(i - 1) : keys[j] # keys[i])
    IN [n \in 1..Len(firsts) |-> Lookup(values, keys, keys[firsts[n]])]

\* remove every uid of the list; a failure is logged (refresh) or counted
\* in errors (clear), and the loop goes on
RECURSIVE RemoveEach(_, _, _, _, _, _)
RemoveEach(ctx, plan, c, uids, counted, i) ==
    IF i > Len(uids) THEN ctx
    ELSE LET c1 == remove_event(ctx, plan, c, uids[i])
             c2 == IF ~counted THEN c1
                   ELSE IF c1.res = "ok" THEN Count(c1, "deleted") ELSE Count(c1, "errors")
         IN RemoveEach(c2, plan, c, uids, counted, i + 1)

\* sync/refresh.py
perform_refresh(ctx, plan, config) ==
    LET state == get_all_state(ctx.db)
        tracked == DictValues(SrcOf(state), TgtOf(state))
    IN IF Len(tracked) = 0 /\ config.fetch = "scan" THEN FetchFailed(ctx)
       ELSE IF ctx.dry_run THEN ctx
       ELSE LET personal_uids_to_delete ==
                    IF Len(tracked) = 0 THEN ManagedUids(ctx.pers) ELSE tracked
            IN commit(clear_all(RemoveEach(ctx, plan, "pers", personal_uids_to_delete, FALSE, 1)))

perform_refresh_to_work(ctx, plan, config) ==
    LET state == get_all_state_by_target(ctx.db)
        tracked == DictValues(TgtOf(state), SrcOf(state))
    IN IF Len(tracked) = 0 /\ config.fetch = "scan" THEN FetchFailed(ctx)
       ELSE IF ctx.dry_run THEN ctx
       ELSE LET work_uids_to_delete ==
                    IF Len(tracked) = 0 THEN ManagedUids(ctx.work) ELSE tracked
            IN commit(clear_all(RemoveEach(ctx, plan, "work", work_uids_to_delete, FALSE, 1)))

perform_refresh_two_way(ctx, plan, config) ==
    LET state_records == get_all_state_bidirectional(ctx.db)
        to_personal == get_all_state(state_records)
        to_work == get_all_state_by_target(state_records)
    IN IF Len(state_records) = 0 /\ config.fetch = "scan" THEN FetchFailed(ctx)
       ELSE IF ctx.dry_run THEN ctx
       ELSE LET empty == Len(SrcOf(to_work)) = 0 /\ Len(TgtOf(to_personal)) = 0
                work_uids_to_delete ==
                    IF empty THEN ManagedUids(ctx.work) ELSE SrcOf(to_work)
                personal_uids_to_delete ==
                    IF empty THEN ManagedUids(ctx.pers) ELSE TgtOf(to_personal)
                c1 == RemoveEach(ctx, plan, "work", work_uids_to_delete, FALSE, 1)
                c2 == RemoveEach(c1, plan, "pers", personal_uids_to_delete, FALSE, 1)
            IN commit(clear_all(c2))

\* a clear that scans the personal calendar only
perform_clear_PersonalOnly(ctx, plan, config, direction) ==
    IF config.fetch = "scan" THEN FetchFailed(ctx)
    ELSE commit(clear_all(RemoveEach(ctx, plan, "pers", ManagedUids(ctx.pers), TRUE, 1)))

\* perform_clear: stats.deleted is assigned the number of removals that
\* succeeded
perform_clear(ctx, plan, config, direction) ==
    IF config.fetch = "scan" THEN FetchFailed(ctx)
    ELSE IF ctx.dry_run THEN ctx
    ELSE LET work_managed ==
                 IF direction \in {"both", "to-work"} THEN ManagedUids(ctx.work) ELSE <<>>
             personal_managed ==
                 IF direction \in {"both", "to-personal"} THEN ManagedUids(ctx.pers) ELSE <<>>
             c1 == RemoveEach(ctx, plan, "work", work_managed, TRUE, 1)
             c2 == RemoveEach(c1, plan, "pers", personal_managed, TRUE, 1)
         IN commit(clear_all(c2))

\* ------------------------------------------------------------------------
\* Forward sync, work -> personal (sync/to_personal.py)
\* ------------------------------------------------------------------------
\* hash of the copy read back after a create/modify, or of the sanitized
\* component when the fetch returns nothing
ReadBackHash_NoFetch(cal, key, sanitized) == compute_hash(sanitized)

ReadBackHash(cal, key, sanitized) ==
    IF get_event(cal, key).uid # 0 THEN compute_hash(get_event(cal, key))
    ELSE compute_hash(sanitized)

\* orphan branch shared by the creation paths: hash of the recovered copy,
\* or the source hash when it cannot be fetched
RecoveredHash(cal, key, source_hash) ==
    IF get_event(cal, key).uid # 0 THEN compute_hash(get_event(cal, key))
    ELSE source_hash

\* a creation path that records the uid it generated
_process_creates_LocalUid(ctx, plan, work_uid, e, orphan_index) ==
    LET fingerprint == compute_source_fingerprint(work_uid) IN
    IF InState(FpOf(orphan_index), fingerprint)
    THEN LET existing_uid == Key(Lookup(orphan_index, FpOf(orphan_index), fingerprint).uid, 0)
             work_hash == compute_hash(e)
             personal_hash == RecoveredHash(ctx.pers, existing_uid, work_hash)
         IN Count(commit(insert_bidirectional(ctx, work_uid, existing_uid,
                                              work_hash, personal_hash, "source")), "added")
    ELSE LET sanitized == sanitize(e, NewUid(ctx), "normal", FingerprintTag(work_uid))
             c1 == create_event(TakeUid(ctx), plan, "pers", sanitized)
         IN IF c1.res = "ok"
            THEN LET personal_uid == Key(NewUid(ctx), 0)
                     personal_hash == ReadBackHash(c1.pers, personal_uid, sanitized)
                 IN Count(commit(insert_bidirectional(c1, work_uid, personal_uid,
                                       compute_hash(e), personal_hash, "source")), "added")
            ELSE Count(c1, "errors")

_process_creates(ctx, plan, work_uid, e, orphan_index) ==
    IF ctx.dry_run THEN Count(ctx, "added") ELSE
    LET fingerprint == compute_source_fingerprint(work_uid) IN
    IF InState(FpOf(orphan_index), fingerprint)
    THEN LET existing_uid == Key(Lookup(orphan_index, FpOf(orphan_index), fingerprint).uid, 0)
             work_hash == compute_hash(e)
             personal_hash == RecoveredHash(ctx.pers, existing_uid, work_hash)
         IN Count(commit(insert_bidirectional(ctx, work_uid, existing_uid,
                                              work_hash, personal_hash, "source")), "added")
    ELSE LET sanitized == sanitize(e, NewUid(ctx), "normal", FingerprintTag(work_uid))
             c1 == create_event(TakeUid(ctx), plan, "pers", sanitized)
         IN IF c1.res = "ok"
            THEN LET personal_uid == Key(c1.uid, 0)
                     personal_hash == ReadBackHash(c1.pers, personal_uid, sanitized)
                 IN Count(commit(insert_bidirectional(c1, work_uid, personal_uid,
                                       compute_hash(e), personal_hash, "source")), "added")
            ELSE Count(c1, "errors")

\* an update path that tries to remove the stale copy whatever the error
_process_updates_AlwaysRemoves(ctx, plan, work_uid, e, personal_uid) ==
    LET sanitized == sanitize(e, personal_uid[1], "normal", FingerprintTag(work_uid))
        c1 == modify_event(ctx, plan, "pers", sanitized)
    IN IF c1.res = "ok"
       THEN Count(commit(update_hashes(c1, work_uid, personal_uid, compute_hash(e),
                             ReadBackHash(c1.pers, personal_uid, sanitized))), "modified")
       ELSE LET c2 == remove_event(c1, plan, "pers", personal_uid)
                fresh == sanitize(e, NewUid(c2), "normal", FingerprintTag(work_uid))
                c3 == create_event(TakeUid(c2), plan, "pers", fresh)
            IN IF c3.res = "ok"
               THEN LET new_uid == Key(c3.uid, 0) IN
                    Count(commit(insert_bidirectional(delete(c3, work_uid), work_uid, new_uid,
                              compute_hash(e), ReadBackHash(c3.pers, new_uid, fresh),
                              "source")), "modified")
               ELSE Count(c3, "errors")

_process_updates(ctx, plan, work_uid, e, personal_uid) ==
    IF ctx.dry_run THEN Count(ctx, "modified") ELSE
    LET sanitized == sanitize(e, personal_uid[1], "normal", FingerprintTag(work_uid))
        c1 == modify_event(ctx, plan, "pers", sanitized)
    IN IF c1.res = "ok"
       THEN Count(commit(update_hashes(c1, work_uid, personal_uid, compute_hash(e),
                             ReadBackHash(c1.pers, personal_uid, sanitized))), "modified")
       ELSE LET \* a NotFound modify skips the removal of the stale copy; any
                \* outcome of the removal is ignored
                c2 == IF c1.res = "notfound" THEN c1
                      ELSE remove_event(c1, plan, "pers", personal_uid)
                fresh == sanitize(e, NewUid(c2), "normal", FingerprintTag(work_uid))
                c3 == create_event(TakeUid(c2), plan, "pers", fresh)
            IN IF c3.res = "ok"
               THEN LET new_uid == Key(c3.uid, 0) IN
                    Count(commit(insert_bidirectional(delete(c3, work_uid), work_uid, new_uid,
                              compute_hash(e), ReadBackHash(c3.pers, new_uid, fresh),
                              "source")), "modified")
               ELSE Count(c3, "errors")

RECURSIVE _process_deletions(_, _, _, _, _)
_process_deletions(ctx, plan, state, seen, i) ==
    IF i > Len(state) THEN ctx
    ELSE IF state[i].src \in seen THEN _process_deletions(ctx, plan, state, seen, i + 1)
    ELSE IF ctx.dry_run
    THEN _process_deletions(Count(ctx, "deleted"), plan, state, seen, i + 1)
    ELSE LET c1 == remove_event(ctx, plan, "pers", state[i].tgt)
             c2 == IF c1.res = "other" THEN Count(c1, "errors")
                   ELSE Count(commit(delete(c1, state[i].src)), "deleted")
         IN _process_deletions(c2, plan, state, seen, i + 1)

\* EXDATE set of each master VEVENT, by uid
master_exdates(evs, uid) ==
    IF \E i \in 1..Len(evs) : evs[i].rid = 0 /\ evs[i].uid = uid /\ evs[i].exdates # {}
    THEN evs[CHOOSE i \in 1..Len(evs) :
                /\ evs[i].rid = 0 /\ evs[i].uid = uid /\ evs[i].exdates # {}
                /\ \A j \in (i + 1)..Len(evs) :
                      ~(evs[j].rid = 0 /\ evs[j].uid = uid /\ evs[j].exdates # {})].exdates
    ELSE {}

\* a detection that does not look at the start date of the exception
IsDeclinedInstance_IgnoresStart(e, evs) ==
    e.rid # 0 /\ e.rid \in master_exdates(evs, e.uid)

\* exception VEVENT of a declined or removed instance
IsDeclinedInstance(e, evs) ==
    e.rid # 0 /\ e.rid \in master_exdates(evs, e.uid) /\ e.start = e.rid

\* the events the main loop of run_one_way_to_personal does not skip
ForwardEligible_KeepsCancelled(e, evs) ==
    /\ ~is_managed_event(e)
    /\ ~is_free_time(e)
    /\ has_valid_occurrences(e)
    /\ ~IsDeclinedInstance(e, evs)

ForwardEligible(e, evs) ==
    /\ ~is_managed_event(e)
    /\ ~is_event_cancelled(e)
    /\ ~is_free_time(e)
    /\ has_valid_occurrences(e)
    /\ ~IsDeclinedInstance(e, evs)

WorkKey(e) == Key(e.uid, e.rid)

RECURSIVE ForwardLoop(_, _, _, _, _, _)
ForwardLoop(ctx, plan, evs, state, orphan_index, i) ==
    IF i > Len(evs) THEN ctx
    ELSE LET e == evs[i]
             work_uid == WorkKey(e)
             c1 == IF ~ForwardEligible(e, evs) THEN ctx
                   ELSE IF ~InState(SrcOf(state), work_uid)
                        THEN _process_creates(ctx, plan, work_uid, e, orphan_index)
                   ELSE IF compute_hash(e) # Lookup(state, SrcOf(state), work_uid).sh
                        THEN _process_updates(ctx, plan, work_uid, e,
                                              Lookup(state, SrcOf(state), work_uid).tgt)
                   ELSE ctx
         IN ForwardLoop(c1, plan, evs, state, orphan_index, i + 1)

\* build_orphan_index returns an empty index when its fetch fails
OrphanScan(cal, db, config) ==
    IF config.fetch = "orphan" THEN <<>> ELSE build_orphan_index(cal, db)

run_one_way_to_personal_with(ctx, plan, config) ==
    LET c0 == IF config.refresh THEN perform_refresh(ctx, plan, config) ELSE ctx
        state == get_all_state(c0.db)
        orphan_index == OrphanScan(c0.pers, c0.db, config)
        work_events == c0.work
        work_uids_seen == {WorkKey(work_events[i]) :
                              i \in {j \in 1..Len(work_events) :
                                        ForwardEligible(work_events[j], work_events)}}
        c1 == ForwardLoop(c0, plan, work_events, state, orphan_index, 1)
    IN IF config.fetch = "work" THEN FetchFailed(c0)
       ELSE FinalCommit(_process_deletions(c1, plan, state, work_uids_seen, 1))

run_one_way_to_personal(ctx, plan) == run_one_way_to_personal_with(ctx, plan, DefaultConfig)

\* ------------------------------------------------------------------------
\* Reverse sync, personal -> work (sync/to_work.py).  Rows are written
\* without a commit; the only commit is the one that ends the run.
\* ------------------------------------------------------------------------
\* origin written by the reverse creation path and by its recreate fallback
OriginOnCreateToWork == "target"

OriginOnRecreateToWork_Flipped == "source"

OriginOnRecreateToWork == "target"

_process_creates_to_work(ctx, plan, personal_uid, e) ==
    IF ctx.dry_run THEN Count(ctx, "added") ELSE
    LET sanitized == sanitize(e, NewUid(ctx), "busy", NoFp)
        c1 == create_event(TakeUid(ctx), plan, "work", sanitized)
    IN IF c1.res = "ok"
       THEN LET work_uid == Key(c1.uid, 0) IN
            Count(insert_bidirectional(c1, work_uid, personal_uid,
                      ReadBackHash(c1.work, work_uid, sanitized), compute_hash(e),
                      OriginOnCreateToWork),
                  "added")
       ELSE Count(c1, "errors")

_process_updates_to_work(ctx, plan, personal_uid, e, work_uid) ==
    IF ctx.dry_run THEN Count(ctx, "modified") ELSE
    LET sanitized == sanitize(e, work_uid[1], "busy", NoFp)
        c1 == modify_event(ctx, plan, "work", sanitized)
    IN IF c1.res = "ok"
       THEN Count(update_hashes(c1, work_uid, personal_uid,
                      ReadBackHash(c1.work, work_uid, sanitized), compute_hash(e)), "modified")
       ELSE LET c2 == remove_event(c1, plan, "work", work_uid)
                fresh == sanitize(e, NewUid(c2), "busy", NoFp)
                c3 == create_event(TakeUid(c2), plan, "work", fresh)
            IN IF c3.res = "ok"
               THEN LET new_uid == Key(c3.uid, 0) IN
                    Count(insert_bidirectional(delete_by_pair(c3, work_uid, personal_uid),
                              new_uid, personal_uid,
                              ReadBackHash(c3.work, new_uid, fresh), compute_hash(e),
                              OriginOnRecreateToWork),
                          "modified")
               ELSE Count(c3, "errors")

RECURSIVE _process_deletions_to_work(_, _, _, _, _)
_process_deletions_to_work(ctx, plan, state, seen, i) ==
    IF i > Len(state) THEN ctx
    ELSE LET personal_uid == state[i].tgt
             work_uid == Lookup(state, TgtOf(state), personal_uid).src
         IN IF personal_uid \in seen \/ (\E j \in 1..(i - 1) : state[j].tgt = personal_uid)
            THEN _process_deletions_to_work(ctx, plan, state, seen, i + 1)
            ELSE IF ctx.dry_run
            THEN _process_deletions_to_work(Count(ctx, "deleted"), plan, state, seen, i + 1)
            ELSE LET c1 == remove_event(ctx, plan, "work", work_uid)
                     c2 == IF c1.res # "ok" THEN Count(c1, "errors")
                           ELSE Count(delete_by_pair(c1, work_uid, personal_uid), "deleted")
                 IN _process_deletions_to_work(c2, plan, state, seen, i + 1)

\* the only filter of run_one_way_to_work
ReverseEligible_Unfiltered(e) == TRUE

ReverseEligible(e) == ~is_managed_event(e)

PersonalKey(e) == Key(e.uid, 0)

RECURSIVE ReverseLoop(_, _, _, _, _)
ReverseLoop(ctx, plan, evs, state, i) ==
    IF i > Len(evs) THEN ctx
    ELSE LET e == evs[i]
             personal_uid == PersonalKey(e)
             c1 == IF ~ReverseEligible(e) THEN ctx
                   ELSE IF ~InState(TgtOf(state), personal_uid)
                        THEN _process_creates_to_work(ctx, plan, personal_uid, e)
                   ELSE IF compute_hash(e) # Lookup(state, TgtOf(state), personal_uid).th
                        THEN _process_updates_to_work(ctx, plan, personal_uid, e,
                                                      Lookup(state, TgtOf(state), personal_uid).src)
                   ELSE ctx
         IN ReverseLoop(c1, plan, evs, state, i + 1)

run_one_way_to_work_with(ctx, plan, config) ==
    LET c0 == IF config.refresh THEN perform_refresh_to_work(ctx, plan, config) ELSE ctx
        state == get_all_state_by_target(c0.db)
        personal_events == c0.pers
        personal_uids_seen == {PersonalKey(personal_events[i]) :
                                  i \in {j \in 1..Len(personal_events) :
                                            ReverseEligible(personal_events[j])}}
        c1 == ReverseLoop(c0, plan, personal_events, state, 1)
    IN IF config.fetch = "personal" THEN FetchFailed(c0)
       ELSE FinalCommit(_process_deletions_to_work(c1, plan, state, personal_uids_seen, 1))

run_one_way_to_work(ctx, plan) == run_one_way_to_work_with(ctx, plan, DefaultConfig)

\* ------------------------------------------------------------------------
\* Bidirectional sync (sync/two_way.py)
\* ------------------------------------------------------------------------
_process_new_work_event(ctx, plan, work_uid, e, orphan_index, valid_exception_dates) ==
    LET work_ical == strip_exdates_for_dates(e, valid_exception_dates)
        fingerprint == compute_source_fingerprint(work_uid)
    IN
    IF ctx.dry_run THEN Count(ctx, "added") ELSE
    IF InState(FpOf(orphan_index), fingerprint)
    THEN LET existing_uid == Key(Lookup(orphan_index, FpOf(orphan_index), fingerprint).uid, 0)
             work_hash == compute_hash(work_ical)
             personal_hash == RecoveredHash(ctx.pers, existing_uid, work_hash)
         IN Count(commit(insert_bidirectional(ctx, work_uid, existing_uid,
                                              work_hash, personal_hash, "source")), "added")
    ELSE LET sanitized == sanitize(work_ical, NewUid(ctx), "normal", FingerprintTag(work_uid))
             c1 == create_event(TakeUid(ctx), plan, "pers", sanitized)
         IN IF c1.res = "ok"
            THEN LET personal_uid == Key(c1.uid, 0) IN
                 Count(commit(insert_bidirectional(c1, work_uid, personal_uid,
                           compute_hash(work_ical),
                           ReadBackHash(c1.pers, personal_uid, sanitized), "source")), "added")
            ELSE Count(c1, "errors")

_process_new_personal_event(ctx, plan, personal_uid, e, orphan_index) ==
    LET fingerprint == compute_source_fingerprint(personal_uid) IN
    IF ctx.dry_run THEN Count(ctx, "added") ELSE
    IF InState(FpOf(orphan_index), fingerprint)
    THEN LET existing_uid == Key(Lookup(orphan_index, FpOf(orphan_index), fingerprint).uid, 0)
             personal_hash == compute_hash(e)
             work_hash == RecoveredHash(ctx.work, existing_uid, personal_hash)
         IN Count(commit(insert_bidirectional(ctx, existing_uid, personal_uid,
                                              work_hash, personal_hash, "target")), "added")
    ELSE LET sanitized == sanitize(e, NewUid(ctx), "busy", FingerprintTag(personal_uid))
             c1 == create_event(TakeUid(ctx), plan, "work", sanitized)
         IN IF c1.res = "ok"
            THEN LET work_uid == Key(c1.uid, 0) IN
                 Count(commit(insert_bidirectional(c1, work_uid, personal_uid,
                           ReadBackHash(c1.work, work_uid, sanitized),
                           compute_hash(e), "target")), "added")
            ELSE Count(c1, "errors")

\* dict uid -> component built from a fetched list: master VEVENTs only
MasterDict(evs) == SelectSeq(evs, LAMBDA e : e.rid = 0)
DictKey(e) == Key(e.uid, 0)
DictKeys(dict) == [i \in 1..Len(dict) |-> DictKey(dict[i])]

\* work uid -> dates that have an exception VEVENT that is not managed,
\* not cancelled and not free time
work_valid_exception_dates(evs, work_uid) ==
    IF work_uid[2] # 0 THEN {}
    ELSE {evs[i].rid : i \in {j \in 1..Len(evs) :
                                /\ evs[j].rid # 0
                                /\ ~is_managed_event(evs[j])
                                /\ ~is_event_cancelled(evs[j])
                                /\ ~is_free_time(evs[j])
                                /\ evs[j].uid = work_uid[1]}}

\* work_changed or personal_changed: either side differs from its stored hash
PairChanged_WorkOnly(current_work_hash, stored_work_hash, current_personal_hash, stored_personal_hash) ==
    current_work_hash # stored_work_hash

PairChanged(current_work_hash, stored_work_hash, current_personal_hash, stored_personal_hash) ==
    current_work_hash # stored_work_hash \/ current_personal_hash # stored_personal_hash

_process_sync_pair(ctx, plan, rec, work_events, personal_events, all_work) ==
    LET work_uid == rec.src
        personal_uid == rec.tgt
        work_exists == InState(DictKeys(work_events), work_uid)
        personal_exists == InState(DictKeys(personal_events), personal_uid)
    IN
    IF ~work_exists /\ ~personal_exists
    THEN IF ctx.dry_run THEN ctx ELSE commit(delete_by_pair(ctx, work_uid, personal_uid))
    ELSE IF ~work_exists /\ ctx.dry_run
    THEN Count(ctx, IF rec.origin = "source" THEN "deleted" ELSE "added")
    ELSE IF ~personal_exists /\ ctx.dry_run
    THEN Count(ctx, IF rec.origin = "target" THEN "deleted" ELSE "added")
    ELSE IF ~work_exists
    THEN IF rec.origin = "source"
         THEN LET c1 == remove_event(ctx, plan, "pers", personal_uid)
                  c2 == IF c1.res = "ok" THEN Count(c1, "deleted") ELSE Count(c1, "errors")
              IN commit(delete_by_pair(c2, work_uid, personal_uid))
         ELSE _process_new_personal_event(commit(delete_by_pair(ctx, work_uid, personal_uid)),
                  plan, personal_uid, Lookup(personal_events, DictKeys(personal_events), personal_uid), <<>>)
    ELSE IF ~personal_exists
    THEN IF rec.origin = "target"
         THEN LET c1 == remove_event(ctx, plan, "work", work_uid)
                  c2 == IF c1.res = "ok" THEN Count(c1, "deleted") ELSE Count(c1, "errors")
              IN commit(delete_by_pair(c2, work_uid, personal_uid))
         ELSE _process_new_work_event(commit(delete_by_pair(ctx, work_uid, personal_uid)),
                  plan, work_uid, Lookup(work_events, DictKeys(work_events), work_uid), <<>>,
                  work_valid_exception_dates(all_work, work_uid))
    ELSE LET work_ical == strip_exdates_for_dates(Lookup(work_events, DictKeys(work_events), work_uid),
                              work_valid_exception_dates(all_work, work_uid))
             personal_ical == Lookup(personal_events, DictKeys(personal_events), personal_uid)
             current_work_hash == compute_hash(work_ical)
             current_personal_hash == compute_hash(personal_ical)
             changed == PairChanged(current_work_hash, rec.sh, current_personal_hash, rec.th)
         IN IF ~changed THEN ctx
            ELSE IF ctx.dry_run /\ rec.origin \in {"source", "target"}
            THEN Count(ctx, "modified")
            ELSE IF rec.origin = "source"
            THEN LET sanitized == sanitize(work_ical, personal_uid[1], "normal",
                                           FingerprintTag(work_uid))
                     c1 == modify_event(ctx, plan, "pers", sanitized)
                 IN IF c1.res = "ok"
                    THEN Count(commit(update_hashes(c1, work_uid, personal_uid,
                                   current_work_hash,
                                   ReadBackHash(c1.pers, personal_uid, sanitized))), "modified")
                    ELSE Count(c1, "errors")
            ELSE IF rec.origin = "target"
            THEN LET sanitized == sanitize(personal_ical, work_uid[1], "busy",
                                           FingerprintTag(personal_uid))
                     c1 == modify_event(ctx, plan, "work", sanitized)
                 IN IF c1.res = "ok"
                    THEN Count(commit(update_hashes(c1, work_uid, personal_uid,
                                   ReadBackHash(c1.work, work_uid, sanitized),
                                   current_personal_hash)), "modified")
                    ELSE Count(c1, "errors")
            ELSE ctx

RECURSIVE Phase1(_, _, _, _, _, _, _)
Phase1(ctx, plan, state_records, work_events, personal_events, all_work, i) ==
    IF i > Len(state_records) THEN ctx
    ELSE Phase1(_process_sync_pair(ctx, plan, state_records[i], work_events,
                                   personal_events, all_work),
                plan, state_records, work_events, personal_events, all_work, i + 1)

\* the unseen work events phase 2 mirrors
Phase2Eligible(e, all_work) ==
    /\ ~is_managed_event(e)
    /\ ~is_event_cancelled(e)
    /\ ~is_free_time(e)
    /\ has_valid_occurrences(
          strip_exdates_for_dates(e, work_valid_exception_dates(all_work, DictKey(e))))

RECURSIVE Phase2(_, _, _, _, _, _, _)
Phase2(ctx, plan, work_events, processed, orphan_index, all_work, i) ==
    IF i > Len(work_events) THEN ctx
    ELSE LET e == work_events[i]
             c1 == IF DictKey(e) \in processed \/ ~Phase2Eligible(e, all_work) THEN ctx
                   ELSE _process_new_work_event(ctx, plan, DictKey(e), e, orphan_index,
                            work_valid_exception_dates(all_work, DictKey(e)))
         IN Phase2(c1, plan, work_events, processed, orphan_index, all_work, i + 1)

\* the unseen personal events phase 3 mirrors
Phase3Eligible(e) == ~is_managed_event(e)

RECURSIVE Phase3(_, _, _, _, _, _)
Phase3(ctx, plan, personal_events, processed, orphan_index, i) ==
    IF i > Len(personal_events) THEN ctx
    ELSE LET e == personal_events[i]
             c1 == IF DictKey(e) \in processed \/ ~Phase3Eligible(e) THEN ctx
                   ELSE _process_new_personal_event(ctx, plan, DictKey(e), e, orphan_index)
         IN Phase3(c1, plan, personal_events, processed, orphan_index, i + 1)

\* a bidirectional run whose phases 2 and 3 forget what phase 1 processed
run_two_way_with_NothingProcessed(ctx, plan, config) ==
    LET c0 == IF config.refresh THEN perform_refresh_two_way(ctx, plan, config) ELSE ctx
        state_records == get_all_state_bidirectional(c0.db)
        personal_orphan_index == OrphanScan(c0.pers, c0.db, config)
        work_orphan_index == OrphanScan(c0.work, c0.db, config)
        all_work == c0.work
        work_events == MasterDict(c0.work)
        personal_events == MasterDict(c0.pers)
        c1 == Phase1(c0, plan, state_records, work_events, personal_events, all_work, 1)
        c2 == Phase2(c1, plan, work_events, {}, personal_orphan_index, all_work, 1)
        c3 == Phase3(c2, plan, personal_events, {}, work_orphan_index, 1)
    IN IF config.fetch \in {"work", "personal"} THEN FetchFailed(c0)
       ELSE commit(c3)

run_two_way_with(ctx, plan, config) ==
    LET c0 == IF config.refresh THEN perform_refresh_two_way(ctx, plan, config) ELSE ctx
        state_records == get_all_state_bidirectional(c0.db)
        personal_orphan_index == OrphanScan(c0.pers, c0.db, config)
        work_orphan_index == OrphanScan(c0.work, c0.db, config)
        all_work == c0.work
        work_events == MasterDict(c0.work)
        personal_events == MasterDict(c0.pers)
        work_uids_processed == {state_records[i].src : i \in 1..Len(state_records)}
        personal_uids_processed == {state_records[i].tgt : i \in 1..Len(state_records)}
        c1 == Phase1(c0, plan, state_records, work_events, personal_events, all_work, 1)
        c2 == Phase2(c1, plan, work_events, work_uids_processed, personal_orphan_index,
                     all_work, 1)
        c3 == Phase3(c2, plan, personal_events, personal_uids_processed, work_orphan_index, 1)
    IN IF config.fetch \in {"work", "personal"} THEN FetchFailed(c0)
       ELSE FinalCommit(c3)

run_two_way(ctx, plan) == run_two_way_with(ctx, plan, DefaultConfig)

\* ------------------------------------------------------------------------
\* State machine: one action per invocation of the program and per
\* external change to a calendar.  A behaviour ends with a run: an external
\* change is only taken when a run can still follow it.
\* ------------------------------------------------------------------------
VARIABLES work, personal, db, stats, calls, nextUid, last, steps, faults, initial,
          store, clock, ret, schema

vars == <<work, personal, db, stats, calls, nextUid, last, steps, faults, initial,
          store, clock, ret, schema>>

\* the database file shared by the calendar pairs, the time, what the last
\* call on a StateDatabase returned, and the shape of the sync_state table of
\* the file: "current" (pair columns) or "legacy" (no pair columns)
NoCall == [op |-> "none", pair |-> <<"", "">>, src |-> 0, tgt |-> 0, hash |-> 0,
           status |-> "ok"]

\* initial calendars: events the user keeps in either calendar
Cancelled(uid) == Event(uid, 0, 1, "A", "cancelled", "none", 0, {})
Transparent(uid) == Event(uid, 0, 1, "A", "confirmed", "transparent", 0, {})
Series(uid, count, exdates) == Event(uid, 0, 1, "A", "none", "none", count, exdates)
Exception(uid, rid, start) == Event(uid, rid, start, "A", "none", "none", 0, {})

WorkCalendars ==
    { <<>>,
      <<Plain(1, "A")>>,
      <<Plain(1, "A"), Plain(2, "B")>>,
      <<Cancelled(1)>>,
      <<Transparent(1), Plain(2, "B")>>,
      <<Series(1, 2, {2}), Exception(1, 2, 3)>>,
      <<Series(1, 1, {1}), Exception(1, 1, 1)>> }

PersonalCalendars ==
    { <<>>,
      <<Plain(11, "A")>>,
      <<Plain(11, "A"), Plain(12, "B")>>,
      <<Cancelled(11)>>,
      <<Transparent(11)>>,
      <<Series(11, 2, {2}), Exception(11, 2, 3)>> }

Plans ==
    {p \in [failAt : 0..MaxFailAt, crashAt : 0..MaxFailAt, failAlso : {0}] :
        p.failAt = 0 \/ p.crashAt = 0}

\* the environments the next run can meet
PlansNow == IF faults < MaxFaults THEN Plans ELSE {NoPlan}

InitSync ==
    /\ work \in WorkCalendars
    /\ personal \in PersonalCalendars
    /\ Len(work) <= 1 \/ Len(personal) <= 1
    /\ db = <<>>
    /\ stats = ZeroStats
    /\ calls = ZeroCalls
    /\ nextUid = FirstMirrorUid
    /\ last = [kind |-> <<"init", "init">>, clean |-> TRUE, halt |-> "no",
               prev |-> <<"init", "init">>, prevClean |-> TRUE, fetch |-> "none"]
    /\ steps = 0
    /\ faults = 0
    /\ initial = [work |-> work, pers |-> personal]

Init ==
    /\ InitSync
    /\ store = <<>>
    /\ clock = 0
    /\ ret = NoCall
    /\ schema = "current"

StartFrom(w, p, table, next) ==
    [work |-> w, pers |-> p, db |-> table, dur |-> table, stats |-> ZeroStats,
     calls |-> ZeroCalls, n |-> 0, next |-> next, halt |-> "no", res |-> "ok", uid |-> 0,
     rewrite |-> {}, dry_run |-> FALSE]

Start == StartFrom(work, personal, db, nextUid)

\* the planned failure or kill happened during the run
Struck(plan, out) ==
    \/ plan.failAt # 0 /\ out.n >= plan.failAt
    \/ plan.crashAt # 0 /\ out.n >= plan.crashAt

\* the program exits: what was not committed is lost with the connection
FinishWith(kind, plan, config, out) ==
    /\ faults' = IF Struck(plan, out) \/ config.fetch # "none" THEN faults + 1 ELSE faults
    /\ work' = out.work
    /\ personal' = out.pers
    /\ db' = out.dur
    /\ stats' = out.stats
    /\ calls' = out.calls
    /\ nextUid' = out.next
    /\ last' = [kind |-> kind, clean |-> (out.halt = "no" /\ out.stats.errors = 0),
                halt |-> out.halt, prev |-> last.kind, prevClean |-> last.clean,
                fetch |-> config.fetch]
    /\ steps' = steps + 1
    /\ UNCHANGED <<initial, store, clock, ret, schema>>

Finish(kind, plan, out) == FinishWith(kind, plan, DefaultConfig, out)

RunForward ==
    /\ steps < MaxSteps
    /\ \E plan \in PlansNow : Finish(<<"run", "forward">>, plan, run_one_way_to_personal(Start, plan))

RunReverse ==
    /\ steps < MaxSteps
    /\ \E plan \in PlansNow : Finish(<<"run", "reverse">>, plan, run_one_way_to_work(Start, plan))

RunTwoWay ==
    /\ steps < MaxSteps
    /\ \E plan \in PlansNow : Finish(<<"run", "both">>, plan, run_two_way(Start, plan))

External(kind, w, p) ==
    /\ work' = w
    /\ personal' = p
    /\ last' = [kind |-> kind, clean |-> TRUE, halt |-> "no",
                prev |-> last.kind, prevClean |-> last.clean, fetch |-> "none"]
    /\ steps' = steps + 1
    /\ UNCHANGED <<db, stats, calls, nextUid, faults, initial, store, clock, ret, schema>>

Edited(cal, i) == [cal EXCEPT ![i].summary = IF @ = "A" THEN "B" ELSE "A", ![i].seq = 2]
Removed(cal, i) == SelectSeq(cal, LAMBDA e : e.uid # cal[i].uid)
Cancel(cal, i) == [cal EXCEPT ![i].status = "cancelled", ![i].seq = 2]
Whose(prefix, e) == IF e.managed THEN <<prefix, "mirror">> ELSE <<prefix, "own">>

\* the user edits the title of an event (an own event or a mirror)
ExtEdit ==
    /\ steps + 1 < MaxSteps
    /\ \/ \E i \in 1..Len(work) :
             External(Whose("edit", work[i]), Edited(work, i), personal)
       \/ \E i \in 1..Len(personal) :
             External(Whose("edit", personal[i]), work, Edited(personal, i))

\* the user deletes an event
ExtDelete ==
    /\ steps + 1 < MaxSteps
    /\ \/ \E i \in 1..Len(work) :
             External(Whose("delete", work[i]), Removed(work, i), personal)
       \/ \E i \in 1..Len(personal) :
             External(Whose("delete", personal[i]), work, Removed(personal, i))

\* an own event is marked cancelled
ExtCancel ==
    /\ steps + 1 < MaxSteps
    /\ \/ \E i \in 1..Len(work) :
             /\ ~work[i].managed /\ work[i].status # "cancelled"
             /\ External(<<"cancel", "own">>, Cancel(work, i), personal)
       \/ \E i \in 1..Len(personal) :
             /\ ~personal[i].managed /\ personal[i].status # "cancelled"
             /\ External(<<"cancel", "own">>, work, Cancel(personal, i))

Next == RunForward \/ RunReverse \/ RunTwoWay \/ ExtEdit \/ ExtDelete \/ ExtCancel

Spec == Init /\ [][Next]_vars

\* ------------------------------------------------------------------------
\* Second specification: the same program with --refresh, --clear and
\* failing fetches
\* ------------------------------------------------------------------------
Refresh == [refresh |-> TRUE, fetch |-> "none"]

\* CalendarSynchronizer.run: the algorithm of a sync direction
Dispatch(direction, ctx, plan, config) ==
    CASE direction = "both" -> run_two_way_with(ctx, plan, config)
      [] direction = "forward" -> run_one_way_to_personal_with(ctx, plan, config)
      [] direction = "reverse" -> run_one_way_to_work_with(ctx, plan, config)

Directions == {"forward", "reverse", "both"}

RunRefresh ==
    /\ steps < MaxOpSteps
    /\ \E plan \in PlansNow, direction \in Directions :
          FinishWith(<<"refresh", direction>>, plan, Refresh,
                     Dispatch(direction, Start, plan, Refresh))

\* sync_direction as perform_clear reads it
SyncDirection(direction) ==
    CASE direction = "both" -> "both"
      [] direction = "forward" -> "to-personal"
      [] direction = "reverse" -> "to-work"

RunClear ==
    /\ steps < MaxOpSteps
    /\ \E plan \in PlansNow, direction \in Directions :
          FinishWith(<<"clear", direction>>, plan, DefaultConfig,
                     perform_clear(Start, plan, DefaultConfig, SyncDirection(direction)))

\* the get_all_events calls a run makes, by the direction and the table
Fetches(direction, refresh, table) ==
    LET tracked == CASE direction = "both" -> Len(table)
                     [] direction = "forward" -> Len(get_all_state(table))
                     [] direction = "reverse" -> Len(get_all_state_by_target(table))
    IN (IF refresh /\ tracked = 0 THEN {"scan"} ELSE {})
       \cup (CASE direction = "both" -> {"orphan", "work", "personal"}
               [] direction = "forward" -> {"orphan", "work"}
               [] direction = "reverse" -> {"personal"})

\* a run one of whose fetches fails
RunFetchFails ==
    /\ steps < MaxOpSteps
    /\ faults < MaxFaults
    /\ \E direction \in Directions, refresh \in BOOLEAN :
          \E fetch \in Fetches(direction, refresh, db) :
             LET config == [refresh |-> refresh, fetch |-> fetch]
             IN FinishWith(<<IF refresh THEN "refresh" ELSE "run", direction>>, NoPlan,
                           config, Dispatch(direction, Start, NoPlan, config))

\* --clear whose metadata scan fails
ClearFetchFails ==
    /\ steps < MaxOpSteps
    /\ faults < MaxFaults
    /\ \E direction \in Directions :
          LET config == [refresh |-> FALSE, fetch |-> "scan"]
          IN FinishWith(<<"clear", direction>>, NoPlan, config,
                        perform_clear(Start, NoPlan, config, SyncDirection(direction)))

NextOps ==
    \/ steps < MaxOpSteps /\ Next
    \/ RunRefresh
    \/ RunClear
    \/ RunFetchFails
    \/ ClearFetchFails

\* the initial calendars of the second specification
InitOps ==
    /\ Init
    /\ work \in {<<>>, <<Plain(1, "A")>>, <<Series(1, 2, {2}), Exception(1, 2, 3)>>}
    /\ personal \in {<<>>, <<Plain(11, "A")>>, <<Series(11, 2, {2}), Exception(11, 2, 3)>>}

SpecOps == InitOps /\ [][NextOps]_vars

\* ------------------------------------------------------------------------
\* Properties
\* ------------------------------------------------------------------------
Forward == <<"run", "forward">>
Reverse == <<"run", "reverse">>
TwoWay == <<"run", "both">>
IsRun(kind) == kind \in {Forward, Reverse, TwoWay}
Rows(table) == {table[i] : i \in 1..Len(table)}
Events(cal) == {cal[i] : i \in 1..Len(cal)}

\* C1: a bidirectional run that immediately follows a failure-free
\* bidirectional run issues no create, modify or remove on either calendar,
\* reports added = modified = deleted = errors = 0 and leaves the records
\* (and both calendars) as they were.
C1_SecondTwoWayIsNoop ==
    [][(last.kind = TwoWay /\ last.clean /\ last'.kind = TwoWay)
          => /\ calls' = ZeroCalls
             /\ stats' = ZeroStats
             /\ db' = db
             /\ work' = work
             /\ personal' = personal]_vars

C1_Witness ==
    /\ last.kind = TwoWay /\ last.prev = TwoWay /\ last.prevClean
    /\ Len(db) >= 2
    /\ calls = ZeroCalls

\* the event a row names as authoritative carries the managed tag
AuthoritativeIsManaged(r) ==
    IF r.origin = "source"
    THEN get_event(work, r.src).uid # 0 /\ is_managed_event(get_event(work, r.src))
    ELSE get_event(personal, r.tgt).uid # 0 /\ is_managed_event(get_event(personal, r.tgt))

NoMirrorOfMirror == \A r \in Rows(db) : ~AuthoritativeIsManaged(r)

Authoritative(r, w, p) == IF r.origin = "source" THEN get_event(w, r.src) ELSE get_event(p, r.tgt)
Mirror(r, w, p) == IF r.origin = "source" THEN get_event(p, r.tgt) ELSE get_event(w, r.src)
StoredMirrorHash(r) == IF r.origin = "source" THEN r.th ELSE r.sh
MirrorTitle(r, a) == IF r.origin = "source" THEN a.summary ELSE "Busy"

MirrorWasEdited(r) ==
    /\ Authoritative(r, work, personal).uid # 0
    /\ Mirror(r, work, personal).uid # 0
    /\ compute_hash(Mirror(r, work, personal)) # StoredMirrorHash(r)

\* C3: in a failure-free bidirectional run, a tracked pair whose two events
\* exist and whose mirror no longer has the stored mirror hash gets its
\* mirror overwritten with content regenerated from the authoritative event
\* (title, timing, managed tag), and the authoritative event is left as it
\* was, whichever calendar it lives in.
C3_MirrorEditOverwritten ==
    [][(last'.kind = TwoWay /\ last'.clean)
          => \A r \in Rows(db) :
                MirrorWasEdited(r)
                   => LET a == Authoritative(r, work, personal)
                          m == Mirror(r, work', personal')
                      IN /\ Authoritative(r, work', personal') = a
                         /\ m.uid = Mirror(r, work, personal).uid
                         /\ m.managed
                         /\ m.summary = MirrorTitle(r, a)
                         /\ m.rrule = a.rrule
                         /\ m.status = "none"
                         /\ \E r2 \in Rows(db') :
                               /\ r2.src = r.src /\ r2.tgt = r.tgt /\ r2.origin = r.origin
                               /\ StoredMirrorHash(r2) = compute_hash(m)]_vars

C3_Witness ==
    /\ last.kind = TwoWay /\ last.clean /\ last.prev = <<"edit", "mirror">>
    /\ stats.modified = 1
    /\ calls.work.modify + calls.pers.modify = 1

\* C4: a row written by any run for an authoritative event that already
\* had a row carries the origin of that row: a step of the program never
\* changes the origin of a tracked relationship, also when the row is
\* deleted and inserted again with another mirror.
C4_OriginNeverChanges ==
    [][\A r \in Rows(db) : \A r2 \in Rows(db') :
          /\ (r.origin = "source" /\ r2.src = r.src) => r2.origin = "source"
          /\ (r.origin = "target" /\ r2.tgt = r.tgt) => r2.origin = "target"
          /\ (r2.src = r.src /\ r2.tgt = r.tgt) => r2.origin = r.origin]_vars

C4_Witness ==
    /\ last.kind = Reverse /\ last.prev = <<"edit", "own">>
    /\ stats.modified = 1 /\ calls.work.create = 1
    /\ \E r \in Rows(db) : r.origin = "target"

\* key and origin of the authoritative event of each row
AuthKey(r) == IF r.origin = "source" THEN r.src ELSE r.tgt
Tracked(table) == {<<AuthKey(r), r.origin>> : r \in Rows(table)}

\* the table a single bidirectional run leaves when started on the initial
\* calendars with an empty store
TwoWayAlone == run_two_way(StartFrom(initial.work, initial.pers, <<>>, FirstMirrorUid), NoPlan).dur

\* C5: from an empty store, a failure-free forward run, then a failure-free
\* reverse run, then a bidirectional run: the bidirectional run issues no
\* create, modify or remove on either calendar and the table ends with the
\* same (authoritative event, origin) relationships as a bidirectional run
\* alone on the same initial calendars.
C5_MixedThenTwoWayIsNoop ==
    [][(/\ steps = 2
        /\ last.prev = Forward /\ last.prevClean
        /\ last.kind = Reverse /\ last.clean
        /\ last'.kind = TwoWay)
          => /\ calls' = ZeroCalls
             /\ Tracked(db') = Tracked(TwoWayAlone)]_vars

\* master events of a calendar that a bidirectional run would mirror when
\* it finds them untracked
EligibleWork(w) == {i \in 1..Len(w) : w[i].rid = 0 /\ Phase2Eligible(w[i], w)}
EligiblePersonal(p) == {i \in 1..Len(p) : p[i].rid = 0 /\ Phase3Eligible(p[i])}

\* C6: a failure-free bidirectional run that directly follows a
\* failure-free first one-way run issues no create on the calendar the
\* one-way run populated and exactly one create per eligible event of the
\* other direction.
C6_TwoWayAfterOneWayCreatesOnlyOtherDirection ==
    [][(/\ steps = 1
        /\ last.kind \in {Forward, Reverse} /\ last.clean
        /\ last'.kind = TwoWay /\ last'.clean)
          => IF last.kind = Forward
             THEN /\ calls'.pers.create = 0
                  /\ calls'.work.create = Cardinality(EligiblePersonal(personal))
             ELSE /\ calls'.work.create = 0
                  /\ calls'.pers.create = Cardinality(EligibleWork(work))]_vars

\* C7: a failure-free bidirectional run that directly follows a
\* failure-free first forward run reports modified = 0 and deleted = 0 and
\* keeps every row the forward run wrote, and its mirror, as they were.
C7_TwoWayAfterForwardKeepsPairs ==
    [][(/\ steps = 1
        /\ last.kind = Forward /\ last.clean
        /\ last'.kind = TwoWay /\ last'.clean)
          => /\ stats'.modified = 0
             /\ stats'.deleted = 0
             /\ \A r \in Rows(db) :
                   /\ r \in Rows(db')
                   /\ get_event(personal', r.tgt) = get_event(personal, r.tgt)]_vars

\* work events a run of the given algorithm would mirror to the personal
\* calendar when untracked, with the key it records them under
Pending(kind, w) ==
    IF kind = Forward
    THEN {i \in 1..Len(w) : ForwardEligible(w[i], w)}
    ELSE EligibleWork(w)
PendingKey(kind, e) == IF kind = Forward THEN WorkKey(e) ELSE DictKey(e)

\* managed events of a calendar that carry the fingerprint of the key
OrphansFor(cal, key) ==
    {m \in Events(cal) : is_managed_event(m) /\ m.fp = compute_source_fingerprint(key)}

Recoverable(kind, w, p) ==
    {i \in Pending(kind, w) : OrphansFor(p, PendingKey(kind, w[i])) # {}}
RecoverableToWork(kind, w, p) ==
    IF kind = Forward THEN {}
    ELSE {i \in EligiblePersonal(p) : OrphansFor(w, DictKey(p[i])) # {}}

NoUntrackedMirror(w, p, table) ==
    /\ \A m \in Events(w) : is_managed_event(m)
          => Cardinality({r \in Rows(table) : r.src = Key(m.uid, 0)}) = 1
    /\ \A m \in Events(p) : is_managed_event(m)
          => Cardinality({r \in Rows(table) : r.tgt = Key(m.uid, 0)}) = 1

\* C9: when the first run is killed after a create and before the commit of
\* its row, a failure-free next run of the same algorithm leaves no mirror
\* without a row: the mirror the killed run created is registered, not
\* created a second time.
C9_InterruptedCreateIsRecovered ==
    [][(/\ steps = 1
        /\ IsRun(last.kind) /\ last.halt = "crash"
        /\ last'.kind = last.kind /\ last'.clean)
          => NoUntrackedMirror(work', personal', db')]_vars

\* the rows a run of the given algorithm reads
Handles(kind, r) ==
    \/ kind = TwoWay
    \/ kind = Forward /\ r.origin = "source"
    \/ kind = Reverse /\ r.origin = "target"

AuthoritativeEvents(r, w, p) ==
    {e \in Events(IF r.origin = "source" THEN w ELSE p) : WorkKey(e) = AuthKey(r)}

\* C10: after a failure-free run, no row the algorithm handles has a
\* cancelled authoritative event: a cancelled event is not mirrored and the
\* mirror of an event that became cancelled is gone with its row.
C10_NoMirrorOfCancelled ==
    [][(IsRun(last'.kind) /\ last'.clean)
          => \A r \in Rows(db') :
                Handles(last'.kind, r)
                   => \A e \in AuthoritativeEvents(r, work', personal') :
                         ~is_event_cancelled(e)]_vars

\* rows of a forward run whose work event is in the calendar and cancelled
CancelledSourceRows(table, w) ==
    {r \in Rows(get_all_state(table)) :
        /\ AuthoritativeEvents(r, w, <<>>) # {}
        /\ \A e \in AuthoritativeEvents(r, w, <<>>) : is_event_cancelled(e)}

\* rows of the first table whose source uid has no row in the second
DroppedRows(before, after) ==
    {r \in Rows(before) : \A r2 \in Rows(after) : r2.src # r.src}

\* C11: a failure-free forward run removes the mirror of every tracked work
\* event that is cancelled, deletes its row, leaves no managed event with
\* its fingerprint in the personal calendar, and counts one deletion for
\* each row it drops (deleted = 1 for one cancelled event, errors = 0).
C11_ForwardRemovesMirrorOfCancelled ==
    [][(last'.kind = Forward /\ last'.clean)
          => /\ \A r \in CancelledSourceRows(db, work) :
                   /\ \A r2 \in Rows(db') : r2.src # r.src
                   /\ get_event(personal', r.tgt) = NoEvent
                   /\ OrphansFor(personal', r.src) = {}
             /\ stats'.deleted = Cardinality(DroppedRows(db, db'))
             /\ stats'.errors = 0]_vars

C11_Witness ==
    /\ last.kind = Forward /\ last.clean /\ last.prev = <<"cancel", "own">>
    /\ stats = [added |-> 0, modified |-> 0, deleted |-> 1, errors |-> 0]
    /\ calls.pers = [create |-> 0, modify |-> 0, remove |-> 1]
    /\ db = <<>> /\ personal = <<>>
    /\ \E e \in Events(work) : is_event_cancelled(e)

\* single opaque events without a TRANSP property that a user keeps
OpaqueByDefault(cal) ==
    {e \in Events(cal) : /\ ~is_managed_event(e) /\ ~is_event_cancelled(e)
                         /\ e.transp = "none" /\ e.rrule = 0 /\ e.rid = 0}

\* C12: after any run no row has a transparent authoritative event (a
\* transparent event is mirrored in neither direction), and after a
\* failure-free bidirectional run every single event without a TRANSP
\* property has a row.
C12_TransparentNeverMirrored ==
    [][IsRun(last'.kind)
          => /\ \A r \in Rows(db') :
                   \A e \in AuthoritativeEvents(r, work', personal') : ~is_free_time(e)
             /\ (last'.kind = TwoWay /\ last'.clean)
                   => /\ \A e \in OpaqueByDefault(work') :
                            \E r \in Rows(db') : r.origin = "source" /\ r.src = WorkKey(e)
                      /\ \A e \in OpaqueByDefault(personal') :
                            \E r \in Rows(db') : r.origin = "target" /\ r.tgt = WorkKey(e)]_vars

\* ------------------------------------------------------------------------
\* Third specification: StateDatabase objects of several calendar pairs on
\* one database file (db.py).  A row of the file:
\*   [wid, pid, src, tgt, sh, th, origin, created, synced]
\* ------------------------------------------------------------------------
CalendarPairs == {<<"W1", "P1">>, <<"W1", "P2">>, <<"W2", "P1">>}

\* WHERE work_calendar_id = ? AND personal_calendar_id = ?
OfPair(row, pair) == row.wid = pair[1] /\ row.pid = pair[2]

StoreRow(pair, src, tgt, sh, th, origin, now) ==
    [wid |-> pair[1], pid |-> pair[2], src |-> src, tgt |-> tgt, sh |-> sh, th |-> th,
     origin |-> origin, created |-> now, synced |-> now]

\* UNIQUE(work_calendar_id, personal_calendar_id, source_uid)
Conflicts(file, pair, src) == \E i \in 1..Len(file) : OfPair(file[i], pair) /\ file[i].src = src

Store_get_all_state(file, pair) ==
    SelectSeq(file, LAMBDA r : OfPair(r, pair) /\ r.origin = "source")
Store_get_all_state_by_target(file, pair) ==
    SelectSeq(file, LAMBDA r : OfPair(r, pair) /\ r.origin = "target")
Store_get_all_state_bidirectional(file, pair) ==
    SelectSeq(file, LAMBDA r : OfPair(r, pair))
Store_get_by_source_uid(file, pair, src) ==
    SelectSeq(file, LAMBDA r : OfPair(r, pair) /\ r.src = src)
Store_get_by_target_uid(file, pair, tgt) ==
    SelectSeq(file, LAMBDA r : OfPair(r, pair) /\ r.tgt = tgt)

\* INSERT: sqlite raises IntegrityError on a conflict and the file is
\* left as it was
Store_insert_bidirectional_Unchecked(file, pair, src, tgt, sh, th, origin, now) ==
    Append(file, StoreRow(pair, src, tgt, sh, th, origin, now))

Store_insert_bidirectional(file, pair, src, tgt, sh, th, origin, now) ==
    IF Conflicts(file, pair, src) THEN file
    ELSE Append(file, StoreRow(pair, src, tgt, sh, th, origin, now))

Store_insert(file, pair, src, tgt, hash, now) ==
    IF Conflicts(file, pair, src) THEN file
    ELSE Append(file, StoreRow(pair, src, tgt, hash, hash, "source", now))

Store_update_hash(file, pair, src, hash, now) ==
    [i \in 1..Len(file) |->
        IF OfPair(file[i], pair) /\ file[i].src = src
        THEN [file[i] EXCEPT !.sh = hash, !.th = hash, !.synced = now]
        ELSE file[i]]

Store_update_hashes(file, pair, src, tgt, sh, th, now) ==
    [i \in 1..Len(file) |->
        IF OfPair(file[i], pair) /\ file[i].src = src /\ file[i].tgt = tgt
        THEN [file[i] EXCEPT !.sh = sh, !.th = th, !.synced = now]
        ELSE file[i]]

Store_delete_AnyPair(file, pair, src) == SelectSeq(file, LAMBDA r : r.src # src)

Store_delete(file, pair, src) ==
    SelectSeq(file, LAMBDA r : ~(OfPair(r, pair) /\ r.src = src))

Store_delete_by_pair(file, pair, src, tgt) ==
    SelectSeq(file, LAMBDA r : ~(OfPair(r, pair) /\ r.src = src /\ r.tgt = tgt))

Store_clear_all(file, pair) == SelectSeq(file, LAMBDA r : ~OfPair(r, pair))

\* arguments of the calls: a version v of an event has target uid
\* TargetUid(v) and hash v
SourceUids == {1, 2}
Versions == {1, 2}
TargetUid(v) == 10 + v

\* a call on the StateDatabase of a pair
Called(op, pair, src, tgt, hash, status, file, now) ==
    /\ steps' = steps + 1
    /\ store' = file
    /\ ret' = [op |-> op, pair |-> pair, src |-> src, tgt |-> tgt, hash |-> hash,
               status |-> status]
    /\ clock' = now
    /\ UNCHANGED <<work, personal, db, stats, calls, nextUid, last, faults, initial, schema>>

\* int(time.time()) of an insert or an update: the time does not go back
Now == {clock, clock + 1}

Raised(file, pair, src) == IF Conflicts(file, pair, src) THEN "IntegrityError" ELSE "ok"

InsertBidirectional ==
    /\ steps < MaxStoreOps
    /\ \E pair \in CalendarPairs, src \in SourceUids, v \in Versions,
          origin \in {"source", "target"}, now \in Now :
          Called("insert_bidirectional", pair, src, TargetUid(v), v, Raised(store, pair, src),
                 Store_insert_bidirectional(store, pair, src, TargetUid(v), v, v, origin, now),
                 now)

Insert ==
    /\ steps < MaxStoreOps
    /\ \E pair \in CalendarPairs, src \in SourceUids, v \in Versions, now \in Now :
          Called("insert", pair, src, TargetUid(v), v, Raised(store, pair, src),
                 Store_insert(store, pair, src, TargetUid(v), v, now), now)

UpdateHash ==
    /\ steps < MaxStoreOps
    /\ \E pair \in CalendarPairs, src \in SourceUids, v \in Versions, now \in Now :
          Called("update_hash", pair, src, 0, v, "ok",
                 Store_update_hash(store, pair, src, v, now), now)

UpdateHashes ==
    /\ steps < MaxStoreOps
    /\ \E pair \in CalendarPairs, src \in SourceUids, v \in Versions, now \in Now :
          Called("update_hashes", pair, src, TargetUid(1), v, "ok",
                 Store_update_hashes(store, pair, src, TargetUid(1), v, v, now), now)

Delete ==
    /\ steps < MaxStoreOps
    /\ \E pair \in CalendarPairs, src \in SourceUids :
          Called("delete", pair, src, 0, 0, "ok", Store_delete(store, pair, src), clock)

DeleteByPair ==
    /\ steps < MaxStoreOps
    /\ \E pair \in CalendarPairs, src \in SourceUids, v \in Versions :
          Called("delete_by_pair", pair, src, TargetUid(v), 0, "ok",
                 Store_delete_by_pair(store, pair, src, TargetUid(v)), clock)

ClearAll ==
    /\ steps < MaxStoreOps
    /\ \E pair \in CalendarPairs :
          Called("clear_all", pair, 0, 0, 0, "ok", Store_clear_all(store, pair), clock)

NextStore ==
    InsertBidirectional \/ Insert \/ UpdateHash \/ UpdateHashes \/ Delete \/ DeleteByPair
       \/ ClearAll

\* the file at the start: empty, or with the same event tracked by two
\* pairs
InitialFiles ==
    { <<>>,
      <<StoreRow(<<"W1", "P1">>, 1, TargetUid(1), 1, 1, "source", 0),
        StoreRow(<<"W1", "P2">>, 1, TargetUid(1), 1, 1, "source", 0)>> }

InitStore ==
    /\ InitSync
    /\ work = <<>> /\ personal = <<>>
    /\ store \in InitialFiles
    /\ clock = 1
    /\ ret = NoCall
    /\ schema = "current"

SpecStore == InitStore /\ [][NextStore]_vars

\* ------------------------------------------------------------------------
\* Fourth specification: a database file written by an older version, whose
\* sync_state table has no pair columns.  A row of a legacy table is held
\* with empty wid and pid, which is also what the rebuilt table gives it
\* before a pair is assigned.
\* ------------------------------------------------------------------------
MaxMigrateSteps == 2   \* operations on one file

\* the pair of the calendars work and personal
ThePair == <<"W1", "P1">>

\* UPDATE sync_state SET work_calendar_id = ?, personal_calendar_id = ?
\* [WHERE origin = ...]
AssignPair(rows, pair, origins) ==
    [i \in 1..Len(rows) |->
        IF rows[i].origin \in origins
        THEN [rows[i] EXCEPT !.wid = pair[1], !.pid = pair[2]] ELSE rows[i]]

\* StateDatabase.migrate_if_needed: the file, the shape of its table and
\* whether CalendarSyncError was raised
migrate_if_needed_DropsAll(file, shape, pair, is_refresh_or_clear) ==
    IF shape = "current" THEN [file |-> file, schema |-> shape, status |-> "ok"]
    ELSE [file |-> <<>>, schema |-> "current", status |-> "ok"]

migrate_if_needed(file, shape, pair, is_refresh_or_clear) ==
    IF shape = "current" THEN [file |-> file, schema |-> shape, status |-> "ok"]
    ELSE LET inverted_count == Len(SelectSeq(file, LAMBDA r : r.origin = "target"))
             total_count == Len(file)
             rebuilt == [i \in 1..Len(file) |-> [file[i] EXCEPT !.wid = "", !.pid = ""]]
             purged == SelectSeq(rebuilt, LAMBDA r : r.origin # "target")
         IN IF inverted_count > 0 /\ ~is_refresh_or_clear
            THEN [file |-> IF total_count - inverted_count > 0
                           THEN AssignPair(rebuilt, pair, {"source"}) ELSE rebuilt,
                  schema |-> "current", status |-> "raise"]
            ELSE LET rows == IF inverted_count > 0 THEN purged ELSE rebuilt
                 IN [file |-> IF total_count > 0
                              THEN AssignPair(rows, pair, {"source", "target"}) ELSE rows,
                     schema |-> "current", status |-> "ok"]

\* the rows the StateDatabase of a pair reads from the file
Load(file, pair) ==
    LET mine == SelectSeq(file, LAMBDA r : OfPair(r, pair))
    IN [i \in 1..Len(mine) |-> [src |-> mine[i].src, tgt |-> mine[i].tgt, sh |-> mine[i].sh,
                                th |-> mine[i].th, origin |-> mine[i].origin]]

\* the file once the rows of a pair have been written as the table a run
\* committed: an insert stamps created_at and last_sync_at, an update stamps
\* last_sync_at
Save(file, pair, table, now) ==
    LET others == SelectSeq(file, LAMBDA r : ~OfPair(r, pair))
        mine == SelectSeq(file, LAMBDA r : OfPair(r, pair))
        Old(t) == {i \in 1..Len(mine) : mine[i].src = t.src /\ mine[i].tgt = t.tgt}
        Fresh(t) == StoreRow(pair, t.src, t.tgt, t.sh, t.th, t.origin, now)
        Stamp(t) ==
            IF Old(t) = {} THEN Fresh(t)
            ELSE LET o == mine[CHOOSE i \in Old(t) : TRUE]
                 IN IF o.sh = t.sh /\ o.th = t.th /\ o.origin = t.origin THEN o
                    ELSE [Fresh(t) EXCEPT !.created = o.created]
    IN others \o [i \in 1..Len(table) |-> Stamp(table[i])]

\* CalendarSynchronizer.run: the migration, then the operation; a migration
\* error leaves the run before the operation starts
Modes == {"run", "refresh", "clear"}

Operation(mode, direction, ctx) ==
    CASE mode = "clear" -> perform_clear(ctx, NoPlan, DefaultConfig, SyncDirection(direction))
      [] mode = "refresh" -> Dispatch(direction, ctx, NoPlan, Refresh)
      [] mode = "run" -> Dispatch(direction, ctx, NoPlan, DefaultConfig)

Outcome(mode, direction, m, ctx) ==
    IF m.status = "raise" THEN [ctx EXCEPT !.halt = "migration"]
    ELSE Operation(mode, direction, ctx)

FinishOnFile(kind, m, out) ==
    /\ store' = IF m.status = "raise" THEN m.file ELSE Save(m.file, ThePair, out.dur, clock)
    /\ schema' = m.schema
    /\ work' = out.work
    /\ personal' = out.pers
    /\ db' = out.dur
    /\ stats' = out.stats
    /\ calls' = out.calls
    /\ nextUid' = out.next
    /\ last' = [kind |-> kind, clean |-> (out.halt = "no" /\ out.stats.errors = 0),
                halt |-> out.halt, prev |-> last.kind, prevClean |-> last.clean,
                fetch |-> "none"]
    /\ steps' = steps + 1
    /\ clock' = clock + 1
    /\ ret' = NoCall
    /\ UNCHANGED <<faults, initial>>

Migration(mode) == migrate_if_needed(store, schema, ThePair, mode \in {"refresh", "clear"})

CalendarSynchronizer_run(mode, direction) ==
    FinishOnFile(<<mode, direction>>, Migration(mode),
                 Outcome(mode, direction, Migration(mode),
                         StartFrom(work, personal, Load(Migration(mode).file, ThePair),
                                   nextUid)))

RunOnFile ==
    /\ steps < MaxMigrateSteps
    /\ \E mode \in Modes, direction \in Directions : CalendarSynchronizer_run(mode, direction)

\* a StateDatabase of some pair is opened on the file and migrates it, and
\* the process ends there
MigrateIfNeeded ==
    /\ steps < MaxMigrateSteps
    /\ \E pair \in CalendarPairs, is_refresh_or_clear \in BOOLEAN :
          LET m == migrate_if_needed(store, schema, pair, is_refresh_or_clear)
          IN /\ store' = m.file
             /\ schema' = m.schema
             /\ db' = Load(m.file, ThePair)
             /\ ret' = [op |-> "migrate_if_needed", pair |-> pair, src |-> 0, tgt |-> 0,
                        hash |-> IF is_refresh_or_clear THEN 1 ELSE 0, status |-> m.status]
             /\ steps' = steps + 1
             /\ UNCHANGED <<work, personal, stats, calls, nextUid, last, faults, initial,
                            clock>>

\* what runs of an older version left behind: calendars with their mirrors
\* and the rows of the run
History(w, p, direction) ==
    Dispatch(direction, StartFrom(w, p, <<>>, FirstMirrorUid), NoPlan, DefaultConfig)

\* a row as the older version stored it: no pair columns, and the rows of
\* --only-to-work with source and target inverted
LegacyRow(r, direction, now) ==
    IF direction = "reverse"
    THEN StoreRow(<<"", "">>, r.tgt, r.src, r.th, r.sh, r.origin, now)
    ELSE StoreRow(<<"", "">>, r.src, r.tgt, r.sh, r.th, r.origin, now)

\* the calendars, the next identifier and the file the program starts from
Installation(h, direction, shape) ==
    [work |-> h.work, pers |-> h.pers, next |-> h.next, schema |-> shape,
     file |-> IF shape = "legacy"
              THEN [i \in 1..Len(h.dur) |-> LegacyRow(h.dur[i], direction, 1)]
              ELSE Save(<<>>, ThePair, h.dur, 1)]

Installations ==
    { Installation(History(t[1], t[2], t[3]), t[3], t[4]) :
        t \in {<<>>, <<Plain(1, "A")>>} \X {<<>>, <<Plain(11, "A")>>} \X Directions
              \X {"legacy", "current"} }

NextMigrate == RunOnFile \/ MigrateIfNeeded

InitMigrate ==
    /\ \E inst \in Installations :
          /\ work = inst.work
          /\ personal = inst.pers
          /\ nextUid = inst.next
          /\ schema = inst.schema
          /\ store = inst.file
    /\ db = Load(store, ThePair)
    /\ stats = ZeroStats
    /\ calls = ZeroCalls
    /\ last = [kind |-> <<"init", "init">>, clean |-> TRUE, halt |-> "no",
               prev |-> <<"init", "init">>, prevClean |-> TRUE, fetch |-> "none"]
    /\ steps = 0
    /\ faults = 0
    /\ initial = [work |-> work, pers |-> personal]
    /\ clock = 2
    /\ ret = NoCall

SpecMigrate == InitMigrate /\ [][NextMigrate]_vars

\* ------------------------------------------------------------------------
\* Seventh specification: the sync runs and the external changes, started
\* after a first failure-free run of the current version
\* ------------------------------------------------------------------------
InitInstalled ==
    /\ \E inst \in Installations :
          /\ inst.schema = "current"
          /\ work = inst.work
          /\ personal = inst.pers
          /\ nextUid = inst.next
          /\ db = Load(inst.file, ThePair)
    /\ stats = ZeroStats
    /\ calls = ZeroCalls
    /\ last = [kind |-> <<"init", "init">>, clean |-> TRUE, halt |-> "no",
               prev |-> <<"init", "init">>, prevClean |-> TRUE, fetch |-> "none"]
    /\ steps = 0
    /\ faults = 0
    /\ initial = [work |-> work, pers |-> personal]
    /\ store = <<>>
    /\ clock = 0
    /\ ret = NoCall
    /\ schema = "current"

NextInstalled == steps < MaxSteps /\ Next

SpecInstalled == InitInstalled /\ [][NextInstalled]_vars

\* ------------------------------------------------------------------------
\* Fifth specification: the sync runs on a work calendar that holds a daily
\* series with excluded dates and no exception event
\* ------------------------------------------------------------------------
MaxCount == 2   \* occurrences of the short series

SeriesEvents ==
    {Series(1, n, x) : n \in 1..MaxCount, x \in SUBSET (1..MaxCount)}
       \cup {Series(1, IterationCap + 1, 1..IterationCap)}

InitSeries ==
    /\ \E s \in SeriesEvents : work \in {<<s>>, <<s, Plain(2, "B")>>}
    /\ personal \in {<<>>, <<Plain(11, "A")>>}
    /\ db = <<>>
    /\ stats = ZeroStats
    /\ calls = ZeroCalls
    /\ nextUid = FirstMirrorUid
    /\ last = [kind |-> <<"init", "init">>, clean |-> TRUE, halt |-> "no",
               prev |-> <<"init", "init">>, prevClean |-> TRUE, fetch |-> "none"]
    /\ steps = 0
    /\ faults = 0
    /\ initial = [work |-> work, pers |-> personal]
    /\ store = <<>>
    /\ clock = 0
    /\ ret = NoCall
    /\ schema = "current"

NextSeries == steps < MaxOpSteps /\ Next

SpecSeries == InitSeries /\ [][NextSeries]_vars

\* ------------------------------------------------------------------------
\* Sixth specification: utils.compute_hash on iCalendar components.  A
\* component is a VEVENT or a VCALENDAR with its VEVENTs in order; a VEVENT
\* is the record of its properties, 0 standing for an absent DTSTAMP,
\* CREATED, LAST-MODIFIED or SEQUENCE.  compute_hash above is this function
\* on the event records of the engine, whose seq field stands for the four
\* volatile properties.
\* ------------------------------------------------------------------------
MaxSubEvents == 2   \* VEVENTs of a VCALENDAR

volatile_props == {"dtstamp", "lastmod", "created", "sequence"}

VEvent(summary, sequence) ==
    [uid |-> 1, summary |-> summary, dtstart |-> 1, dtend |-> 2, rrule |-> 0, exdates |-> {},
     dtstamp |-> 1, lastmod |-> 0, created |-> 1, sequence |-> sequence]

\* a normalisation that leaves SEQUENCE in place
normalize_vevent_KeepsSequence(event) ==
    [f \in DOMAIN event |->
        IF f \in volatile_props \ {"sequence"} THEN 0 ELSE event[f]]

\* compute_hash.normalize_vevent: every volatile property is removed
normalize_vevent(event) ==
    [f \in DOMAIN event |-> IF f \in volatile_props THEN 0 ELSE event[f]]

\* the digest of the text of the normalised component, taken to be
\* collision free
ComponentHash(comp) ==
    IF comp.kind \in {"VCALENDAR", "VEVENT"}
    THEN [comp EXCEPT !.vevents = [i \in 1..Len(@) |-> normalize_vevent(@[i])]]
    ELSE comp

\* the components hashed: single events and calendars of 1..MaxSubEvents
\* events
HashEvents == {VEvent(t, q) : t \in {"A", "B"}, q \in {0, 1}}

RECURSIVE EventLists(_)
EventLists(n) ==
    IF n = 0 THEN {<<>>}
    ELSE {Append(l, e) : l \in EventLists(n - 1), e \in {VEvent("A", 0), VEvent("B", 1)}}

Components ==
    {[kind |-> "VEVENT", vevents |-> <<e>>] : e \in HashEvents}
       \cup {[kind |-> "VCALENDAR", vevents |-> l] :
                l \in UNION {EventLists(n) : n \in 1..MaxSubEvents}}

\* the values a property of the second component takes
PropertyValues(f) ==
    CASE f = "summary" -> {"A", "B"}
      [] f = "exdates" -> {{}, {1}}
      [] f = "uid" -> {1}
      [] OTHER -> {0, 1, 2}

\* a second component: the first with one property of one VEVENT changed, or
\* with every volatile property of one VEVENT changed
Variants(comp) ==
    UNION {{[comp EXCEPT !.vevents[i][f] = v] :
               i \in 1..Len(comp.vevents), v \in PropertyValues(f)} :
           f \in DOMAIN VEvent("A", 0)}
       \cup {[comp EXCEPT !.vevents[i] = [f \in DOMAIN @ |->
                                             IF f \in volatile_props THEN 2 ELSE @[f]]] :
                i \in 1..Len(comp.vevents)}

InitHash ==
    /\ InitSync
    /\ work = <<>> /\ personal = <<>>
    /\ store = <<>>
    /\ clock = 0
    /\ schema = "current"
    /\ \E a \in Components : \E b \in Variants(a) :
          ret = [op |-> "input", a |-> a, b |-> b, ha |-> 0, hb |-> 0]

\* compute_hash is called on both components
ComputeHash ==
    /\ ret.op = "input"
    /\ ret' = [ret EXCEPT !.op = "compute_hash", !.ha = ComponentHash(ret.a),
                          !.hb = ComponentHash(ret.b)]
    /\ steps' = steps + 1
    /\ UNCHANGED <<work, personal, db, stats, calls, nextUid, last, faults, initial, store,
                   clock, schema>>

NextHash == ComputeHash

SpecHash == InitHash /\ [][NextHash]_vars

\* ------------------------------------------------------------------------
\* Eighth specification: the sync runs against backends that may assign
\* their own uid to a created event
\* ------------------------------------------------------------------------
Backends == SUBSET {"work", "pers"}

StartOn(rewriting) == [Start EXCEPT !.rewrite = rewriting]

RunOnBackend ==
    /\ steps < MaxOpSteps
    /\ \E direction \in Directions, plan \in PlansNow, rewriting \in Backends \ {{}} :
          FinishWith(<<"run", direction>>, plan, DefaultConfig,
                     Dispatch(direction, StartOn(rewriting), plan, DefaultConfig))

NextBackend ==
    \/ steps < MaxOpSteps /\ Next
    \/ RunOnBackend

InitBackend ==
    /\ Init
    /\ work \in {<<>>, <<Plain(1, "A")>>, <<Plain(1, "A"), Plain(2, "B")>>}
    /\ personal \in {<<>>, <<Plain(11, "A")>>}

SpecBackend == InitBackend /\ [][NextBackend]_vars

\* ------------------------------------------------------------------------
\* Ninth specification: the sync runs on a work calendar that holds a daily
\* series and one exception VEVENT of it (same uid, RECURRENCE-ID rid):
\* rescheduled or not, cancelled or not, free time or not, its date
\* excluded in the master or not
\* ------------------------------------------------------------------------
MasterEvents == {Series(1, n, x) : n \in 1..MaxCount, x \in SUBSET (1..MaxCount)}

ExceptionKinds == {<<"none", "none">>, <<"cancelled", "none">>, <<"none", "transparent">>}

ExceptionEvents ==
    {Event(1, rid, start, "A", k[1], k[2], 0, {}) :
        rid \in 1..MaxCount, start \in 1..(MaxCount + 1), k \in ExceptionKinds}

InitExceptions ==
    /\ \E m \in MasterEvents, x \in ExceptionEvents : work = <<m, x>>
    /\ personal = <<>>
    /\ db = <<>>
    /\ stats = ZeroStats
    /\ calls = ZeroCalls
    /\ nextUid = FirstMirrorUid
    /\ last = [kind |-> <<"init", "init">>, clean |-> TRUE, halt |-> "no",
               prev |-> <<"init", "init">>, prevClean |-> TRUE, fetch |-> "none"]
    /\ steps = 0
    /\ faults = 0
    /\ initial = [work |-> work, pers |-> personal]
    /\ store = <<>>
    /\ clock = 0
    /\ ret = NoCall
    /\ schema = "current"

NextExceptions == steps < MaxOpSteps /\ Next

SpecExceptions == InitExceptions /\ [][NextExceptions]_vars

\* the events of a calendar that the engine did not create
UserEvents(cal) == SelectSeq(cal, LAMBDA e : ~is_managed_event(e))

\* a step of the engine: a sync run, a refresh run or a clear
IsOperation(kind) == kind[1] \in {"run", "refresh", "clear"}

\* C13: no sync run, refresh or clear modifies or removes an event the
\* engine did not create: the non-managed events of both calendars, with
\* their content, are the same after the operation as before it, whether
\* the operation succeeds, fails or is killed.
C13_UserEventsUntouched ==
    [][IsOperation(last'.kind)
          => /\ UserEvents(work') = UserEvents(work)
             /\ UserEvents(personal') = UserEvents(personal)]_vars

\* a refresh or a clear removed mirrors from a calendar that also holds
\* events of the user
C13_Witness ==
    /\ last.kind[1] \in {"refresh", "clear"}
    /\ last.prev[1] = "run"
    /\ calls.pers.remove + calls.work.remove > 0
    /\ UserEvents(work) # <<>>
    /\ UserEvents(personal) # <<>>

\* a run of one direction without --refresh
Run(direction, ctx, plan) == Dispatch(direction, ctx, plan, DefaultConfig)

\* the plan in which the k-th calendar call of the run fails
FailAt(k) == [failAt |-> k, crashAt |-> 0, failAlso |-> 0]

\* an event or a hash without the uid the engine drew for a mirror
Anon(e) == IF e.uid # 0 /\ e.managed THEN [e EXCEPT !.uid = 0] ELSE e

\* the authoritative events a run can deal with: <<key, origin>>
Subjects(ctx) ==
    Tracked(ctx.db)
       \cup {<<WorkKey(e), "source">> : e \in {x \in Events(ctx.work) : ~is_managed_event(x)}}
       \cup {<<WorkKey(e), "target">> : e \in {x \in Events(ctx.pers) : ~is_managed_event(x)}}

\* what a run left for one authoritative event: its rows and its mirrors,
\* up to the uids of the mirrors
OutcomeOf(out, subject) ==
    LET rows == {r \in Rows(out.db) : <<AuthKey(r), r.origin>> = subject}
        cal == IF subject[2] = "source" THEN out.pers ELSE out.work
    IN [hashes |-> {<<r.origin, Anon(r.sh), Anon(r.th)>> : r \in rows},
        mirrors |-> {Anon(Mirror(r, out.work, out.pers)) : r \in rows},
        untracked |-> {Anon(m) : m \in OrphansFor(cal, subject[1])}]

\* the failing run treated every event but one as the run without failure
OthersAsIfNoFailure(out, ref, subjects) ==
    \E affected \in subjects :
       \A other \in subjects \ {affected} : OutcomeOf(out, other) = OutcomeOf(ref, other)

OnlyCreates(out) ==
    /\ out.calls.work.modify + out.calls.work.remove = 0
    /\ out.calls.pers.modify + out.calls.pers.remove = 0

RecordOf(table, subject) == {r \in Rows(table) : <<AuthKey(r), r.origin>> = subject}

\* the authoritative events that are a single component, or are gone
SingleSubjects(ctx) ==
    {s \in Subjects(ctx) :
        Cardinality({e \in Events(IF s[2] = "source" THEN ctx.work ELSE ctx.pers) :
                        e.uid = s[1][1]}) <= 1}

\* C15: when a create, modify or remove of a run fails with an error other
\* than NotFound and the failure is counted in errors, the record of the
\* event concerned (presence, target uid, both hashes, origin) is after the
\* run what it was before it: every event of a single component either
\* ends as in the run without the failure or keeps its record unchanged.
C15_FailedEventKeepsItsRecord ==
    \A direction \in Directions :
       LET ref == Run(direction, Start, NoPlan)
       IN \A k \in 1..ref.n :
             LET out == Run(direction, Start, FailAt(k))
             IN out.stats.errors = ref.stats.errors + 1
                   => \A subject \in SingleSubjects(Start) :
                         \/ OutcomeOf(out, subject) = OutcomeOf(ref, subject)
                         \/ RecordOf(out.db, subject) = RecordOf(db, subject)

\* the next run of the program, started on what a run left
After(out) == StartFrom(out.work, out.pers, out.dur, out.next)

\* the rows of vanished authoritative events whose mirror the run of the
\* direction removes when no call fails
VanishedRows(direction, ref) ==
    {r \in Rows(db) : /\ Handles(<<"run", direction>>, r)
                      /\ AuthoritativeEvents(r, work, personal) = {}
                      /\ Mirror(r, work, personal) # NoEvent
                      /\ Mirror(r, ref.work, ref.pers) = NoEvent}

\* C16: when the removal of the mirror of a vanished authoritative event
\* fails with an error other than NotFound, so that the run leaves the
\* mirror in the calendar, the next run of the same algorithm, in which
\* every call succeeds, removes the mirror.
C16_FailedRemovalIsRetried ==
    \A direction \in Directions :
       LET ref == Run(direction, Start, NoPlan)
       IN \A k \in 1..ref.n :
             LET out == Run(direction, Start, FailAt(k))
                 later == Run(direction, After(out), NoPlan)
             IN \A r \in VanishedRows(direction, ref) :
                   Mirror(r, out.work, out.pers) # NoEvent
                      => Mirror(r, later.work, later.pers) = NoEvent

\* the run changed neither calendar nor the table and issued no call
NothingDone ==
    /\ calls' = ZeroCalls
    /\ work' = work /\ personal' = personal
    /\ db' = db

\* C17: when the fetch of the events of a calendar fails, in a run of any
\* direction, with or without --refresh, the run aborts with the error,
\* no create, modify or remove has been issued and no record has changed.
C17_FetchFailureAbortsBeforeMutation ==
    [][last'.fetch \in {"work", "personal"}
          => (last'.halt = "raise" /\ NothingDone)]_vars

\* the rows of the file that belong to another pair
ForeignRows(file, pair) == SelectSeq(file, LAMBDA r : ~OfPair(r, pair))

RowsOf(file, pair, src) == {r \in Rows(file) : OfPair(r, pair) /\ r.src = src}

\* C18: the file holds at most one record per (work calendar id, personal
\* calendar id, source uid).
C18_OneRecordPerSource ==
    \A i, j \in 1..Len(store) :
       (/\ store[i].wid = store[j].wid
        /\ store[i].pid = store[j].pid
        /\ store[i].src = store[j].src) => i = j

\* an insert for a source uid the pair already tracks was refused, while
\* another pair tracks the same source uid
C18_Witness ==
    /\ ret.op \in {"insert", "insert_bidirectional"}
    /\ ret.status = "IntegrityError"
    /\ Cardinality(RowsOf(store, ret.pair, ret.src)) = 1
    /\ \E r \in Rows(store) : r.src = ret.src /\ ~OfPair(r, ret.pair)

\* what the reads of a pair return
Reads(file, pair) ==
    Rows(Store_get_all_state(file, pair))
       \cup Rows(Store_get_all_state_by_target(file, pair))
       \cup Rows(Store_get_all_state_bidirectional(file, pair))
       \cup UNION {Rows(Store_get_by_source_uid(file, pair, src)) : src \in SourceUids}
       \cup UNION {Rows(Store_get_by_target_uid(file, pair, TargetUid(v))) : v \in Versions}

\* C19: calendar pairs that share the file do not interfere: every read of
\* a pair returns rows of that pair only, and every write of a pair
\* (insert, hash update, delete, delete by pair, clear all) leaves the
\* rows of the other pairs as they were.
C19_PairsDoNotInterfere ==
    [][/\ \A pair \in CalendarPairs : \A r \in Reads(store', pair) : OfPair(r, pair)
       /\ ForeignRows(store', ret'.pair) = ForeignRows(store, ret'.pair)]_vars

\* a pair deleted or cleared its row for a source uid that another pair
\* still tracks
C19_Witness ==
    /\ ret.op \in {"delete", "delete_by_pair", "clear_all"}
    /\ \E r \in InitialFiles : Len(r) = 2 /\ store = <<r[2]>> /\ ret.pair = <<r[1].wid, r[1].pid>>

\* C20: insert_bidirectional for a source uid the pair already tracks does
\* not fail: it leaves exactly one record for that source uid, holding
\* the new target uid and hashes, with the createdAt of the old record and
\* a lastSyncAt that is not earlier than before.
C20_InsertExistingUpserts ==
    [][(ret'.op = "insert_bidirectional" /\ Conflicts(store, ret'.pair, ret'.src))
          => /\ ret'.status = "ok"
             /\ Cardinality(RowsOf(store', ret'.pair, ret'.src)) = 1
             /\ \A new \in RowsOf(store', ret'.pair, ret'.src) :
                   /\ new.tgt = ret'.tgt /\ new.sh = ret'.hash /\ new.th = ret'.hash
                   /\ \A old \in RowsOf(store, ret'.pair, ret'.src) :
                         new.created = old.created /\ new.synced >= old.synced]_vars

\* C21: when migrate_if_needed finds the legacy table and does not refuse,
\* the table becomes the legacy rows, each with every field unchanged and
\* the pair of the caller, in their order, less the origin = 'target' rows
\* when the operation is a refresh or a clear; a table in the current shape
\* is left as it is.
Migrated(ret1) == ret1.op = "migrate_if_needed"

C21_MigrationKeepsRows ==
    [][Migrated(ret') =>
          IF schema = "current" THEN store' = store /\ schema' = schema
          ELSE ret'.status = "ok" =>
                  LET kept == IF ret'.hash = 1
                              THEN SelectSeq(store, LAMBDA r : r.origin # "target")
                              ELSE store
                  IN /\ schema' = "current"
                     /\ store' = [i \in 1..Len(kept) |->
                                     [kept[i] EXCEPT !.wid = ret'.pair[1],
                                                     !.pid = ret'.pair[2]]]]_vars

C21_Witness ==
    /\ Migrated(ret) /\ ret.status = "ok" /\ ret.hash = 1 /\ steps = 1
    /\ Len(initial.work) = 1 /\ Len(initial.pers) = 1
    /\ Len(store) = 1
    /\ store[1].origin = "source" /\ store[1].wid = ret.pair[1] /\ store[1].created = 1 /\ clock = 2


\* the rows of ambiguous origin of a legacy table: origin = 'target' and no
\* pair
Ambiguous(file) == SelectSeq(file, LAMBDA r : r.origin = "target" /\ r.wid = "" /\ r.pid = "")

\* nothing but refused runs came before
OnlyRefusedRuns == ret = NoCall /\ (steps = 0 \/ last.halt = "migration")

\* C22: while the file holds legacy rows of ambiguous origin and no refresh
\* or clear has run, a run without --refresh or --clear, the first or a
\* repeated one, ends with the migration error, issues no calendar call,
\* counts nothing, leaves both calendars as they were and keeps the
\* ambiguous rows.
C22_AmbiguousRowsRefuseEveryRun ==
    [][(/\ Ambiguous(store) # <<>>
        /\ OnlyRefusedRuns
        /\ last'.kind[1] = "run" /\ steps' = steps + 1 /\ ret' = NoCall)
          => /\ last'.halt = "migration"
             /\ calls' = ZeroCalls
             /\ stats' = ZeroStats
             /\ work' = work /\ personal' = personal
             /\ Ambiguous(store') = Ambiguous(store)]_vars


\* the refresh step of a run of a direction, taken from the current state
\* with no failure planned
RefreshStep(direction) ==
    CASE direction = "both" -> perform_refresh_two_way(Start, NoPlan, Refresh)
      [] direction = "forward" -> perform_refresh(Start, NoPlan, Refresh)
      [] direction = "reverse" -> perform_refresh_to_work(Start, NoPlan, Refresh)

Uids(cal) == {e.uid : e \in Events(cal)}

\* every remove call took an event away
NoRemovalFailed(out) ==
    /\ out.calls.work.remove = Cardinality(Uids(work)) - Cardinality(Uids(out.work))
    /\ out.calls.pers.remove = Cardinality(Uids(personal)) - Cardinality(Uids(out.pers))

\* the mirror of a record is in the calendars
MirrorLeft(r, w, p) ==
    IF r.origin = "source" THEN r.tgt[1] \in Uids(p) ELSE r.src[1] \in Uids(w)

Managed(cal) == {e \in Events(cal) : is_managed_event(e)}

\* C23: after the refresh step of a run of any direction in which no
\* removal fails, the pair has no record and no event that was the mirror
\* of a record before the step is left in its calendar; when the table was
\* empty before, no managed event is left in the calendars the direction
\* writes to.
C23_RefreshLeavesNoMirrorBehind ==
    \A direction \in Directions :
       NoRemovalFailed(RefreshStep(direction))
          => /\ RefreshStep(direction).dur = <<>>
             /\ \A r \in Rows(db) :
                   ~MirrorLeft(r, RefreshStep(direction).work, RefreshStep(direction).pers)
             /\ db = <<>>
                   => /\ direction \in {"forward", "both"}
                         => Managed(RefreshStep(direction).pers) = {}
                      /\ direction \in {"reverse", "both"}
                         => Managed(RefreshStep(direction).work) = {}


\* C24: a clear issues no create and no modify and adds or modifies
\* nothing; with direction both and no failed removal it leaves no managed
\* event in either calendar and no record of the pair, and its deleted
\* count is the number of events that left the calendars.
C24_ClearOnlyRemoves ==
    [][last'.kind[1] = "clear" /\ steps' = steps + 1
          => /\ calls'.work.create = 0 /\ calls'.work.modify = 0
             /\ calls'.pers.create = 0 /\ calls'.pers.modify = 0
             /\ stats'.added = 0 /\ stats'.modified = 0
             /\ (last'.kind[2] = "both" /\ last'.halt = "no" /\ stats'.errors = 0)
                   => /\ Managed(work') = {} /\ Managed(personal') = {}
                      /\ db' = <<>>
                      /\ stats'.deleted = (Len(work) - Len(work'))
                                          + (Len(personal) - Len(personal'))]_vars

\* a clear of both calendars removed a mirror from each and dropped their
\* records
C24_Witness ==
    /\ last.kind = <<"clear", "both">> /\ last.clean
    /\ last.prev[1] = "run"
    /\ calls.work.remove > 0 /\ calls.pers.remove > 0
    /\ stats.deleted = 2
    /\ db = <<>>


\* a daily series of the user with no exception event
SeriesAlone(e, cal) ==
    /\ e.rid = 0 /\ e.rrule > 0
    /\ ~is_managed_event(e) /\ ~is_event_cancelled(e) /\ ~is_free_time(e)
    /\ \A x \in Events(cal) : x.uid = e.uid => x = e

ExcludedCount(e) == Cardinality(e.exdates \cap Occurrences(e))

MirroredIn(e, table, p) ==
    \E r \in Rows(table) :
       r.origin = "source" /\ r.src = Key(e.uid, 0) /\ r.tgt[1] \in Uids(p)

\* the series with every occurrence excluded is passed over
SkippedEntirely(e) ==
    /\ ~HasSource(db', Key(e.uid, 0))
    /\ (work = <<e>> /\ db = <<>> /\ (last'.kind = Forward \/ personal = <<>>))
          => /\ calls' = ZeroCalls
             /\ stats' = ZeroStats
             /\ db' = <<>>

IsMirroringRun(kind) == kind \in {Forward, TwoWay}

\* C25: a forward or bidirectional run that ends without failure leaves a
\* daily series of N occurrences, fewer than N of them excluded, with a
\* record and a mirror; a series with all N excluded and no record gets no
\* record, and a run that has nothing else to do issues no calendar call
\* and counts nothing.
C25_SeriesMirroredUnlessAllExcluded ==
    [][IsMirroringRun(last'.kind) /\ steps' = steps + 1
          => \A e \in Events(work) :
                SeriesAlone(e, work)
                   => /\ (ExcludedCount(e) < e.rrule /\ last'.clean)
                            => MirroredIn(e, db', personal')
                      /\ (ExcludedCount(e) = e.rrule /\ ~HasSource(db, Key(e.uid, 0)))
                            => SkippedEntirely(e)]_vars

\* the series has no record yet, or its mirror is in place
Untouched(e) ==
    ~HasSource(db, Key(e.uid, 0)) \/ MirroredIn(e, db, personal)

\* C25 (amended): the same, for a series one of whose first IterationCap
\* occurrences is not excluded and whose mirror, if it has one, has not
\* been removed from the personal calendar.
C25_SeriesMirroredWithinCap ==
    [][IsMirroringRun(last'.kind) /\ steps' = steps + 1
          => \A e \in Events(work) :
                SeriesAlone(e, work)
                   => /\ (Expanded(e) \ e.exdates # {} /\ Untouched(e) /\ last'.clean)
                            => MirroredIn(e, db', personal')
                      /\ (ExcludedCount(e) = e.rrule /\ ~HasSource(db, Key(e.uid, 0)))
                            => SkippedEntirely(e)]_vars

\* a run mirrored a series with one of two occurrences excluded
C25_Witness ==
    /\ IsMirroringRun(last.kind) /\ last.clean
    /\ \E e \in Events(work) :
          /\ SeriesAlone(e, work) /\ e.rrule = 2 /\ ExcludedCount(e) = 1
          /\ MirroredIn(e, db, personal)


\* two components of the same shape
SameShape(a, b) == a.kind = b.kind /\ Len(a.vevents) = Len(b.vevents)

\* they differ at most in DTSTAMP, CREATED, LAST-MODIFIED and SEQUENCE of
\* their VEVENTs
DifferOnlyInVolatile(a, b) ==
    /\ SameShape(a, b)
    /\ \A i \in 1..Len(a.vevents) :
          \A f \in DOMAIN a.vevents[i] :
             f \notin {"dtstamp", "created", "lastmod", "sequence"}
                => a.vevents[i][f] = b.vevents[i][f]

\* a VEVENT of one differs from its counterpart in title, start, end,
\* recurrence rule or exclusion dates
DifferInContent(a, b) ==
    /\ SameShape(a, b)
    /\ \E i \in 1..Len(a.vevents) :
          \E f \in {"summary", "dtstart", "dtend", "rrule", "exdates"} :
             a.vevents[i][f] # b.vevents[i][f]

\* C26: compute_hash gives one digest to two components that differ only
\* in DTSTAMP, CREATED, LAST-MODIFIED or SEQUENCE, in a single VEVENT or in
\* any VEVENT of a VCALENDAR, and different digests to two components that
\* differ in the title, the start, the end, the recurrence rule or the
\* exclusion dates of a VEVENT.
C26_HashIgnoresVolatileOnly ==
    ret.op = "compute_hash"
       => /\ DifferOnlyInVolatile(ret.a, ret.b) => ret.ha = ret.hb
          /\ DifferInContent(ret.a, ret.b) => ret.ha # ret.hb

\* a calendar of two events was hashed against one whose second event has
\* another SEQUENCE
C26_Witness ==
    /\ ret.op = "compute_hash"
    /\ ret.a.kind = "VCALENDAR" /\ Len(ret.a.vevents) = 2
    /\ ret.a.vevents[2].sequence # ret.b.vevents[2].sequence
    /\ DifferOnlyInVolatile(ret.a, ret.b)
    /\ ret.ha = ret.hb


\* the records whose mirror is an event the step created: its uid is in no
\* calendar and in no record before the step
MirrorUid(r) == IF r.origin = "source" THEN r.tgt[1] ELSE r.src[1]

CreatedRows ==
    {r \in Rows(db') :
        /\ \A old \in Rows(db) : MirrorUid(old) # MirrorUid(r)
        /\ MirrorUid(r) \notin Uids(work) \cup Uids(personal)}

MirrorsOf(r, w, p) ==
    IF r.origin = "source" THEN {e \in Events(p) : e.uid = r.tgt[1]}
    ELSE {e \in Events(w) : e.uid = r.src[1]}

\* C27: a mirror a run creates for a work event (forward run, phase 2)
\* keeps the title of the work event and its record has origin = 'source';
\* a mirror created for a personal event (reverse run, phase 3) is titled
\* "Busy" and its record has origin = 'target'; a run that only creates
\* counts every successful create in added and nothing in modified.
C27_CreatedMirrorTitleAndOrigin ==
    [][IsRun(last'.kind) /\ steps' = steps + 1
          => /\ \A r \in CreatedRows :
                   /\ Handles(last'.kind, r)
                   /\ \A a \in AuthoritativeEvents(r, work, personal) :
                         /\ ~is_managed_event(a)
                         /\ \A m \in MirrorsOf(r, work', personal') :
                               /\ is_managed_event(m)
                               /\ r.origin = "source" => m.summary = a.summary
                               /\ r.origin = "target" => m.summary = "Busy"
             /\ (last'.halt = "no" /\ OnlyCreates([calls |-> calls'])
                    /\ Managed(work) \cup Managed(personal) = {})
                   => /\ stats'.added + stats'.errors
                            = calls'.work.create + calls'.pers.create
                      /\ stats'.added = Cardinality(CreatedRows)
                      /\ stats'.modified = 0]_vars

\* a bidirectional run created a titled mirror of a work event and a Busy
\* mirror of a personal event
C27_Witness ==
    /\ last.kind = TwoWay /\ last.clean /\ last.prev[1] = "init"
    /\ stats.added = 2 /\ stats.modified = 0
    /\ \E r1, r2 \in Rows(db) :
          /\ r1.origin = "source" /\ r2.origin = "target"
          /\ \E m \in MirrorsOf(r1, work, personal) : m.summary = "A"
          /\ \E m \in MirrorsOf(r2, work, personal) : m.summary = "Busy"


MaxCrashAt == 2   \* the call after which the run of C28 is killed

CrashAt(k) == [failAt |-> 0, crashAt |-> k, failAlso |-> 0]

\* the uids of the events whose calendar state and committed record
\* disagree: a managed event without a record, a record without its mirror,
\* a record whose stored hash is not the hash of its mirror
Disagreeing(w, p, table) ==
    {m.uid : m \in {m \in Managed(w) : \A r \in Rows(table) : r.src[1] # m.uid}}
       \cup {m.uid : m \in {m \in Managed(p) : \A r \in Rows(table) : r.tgt[1] # m.uid}}
       \cup {(IF r.origin = "source" THEN r.tgt[1] ELSE r.src[1]) :
                r \in {r \in Rows(table) :
                          \/ MirrorsOf(r, w, p) = {}
                          \/ \E m \in MirrorsOf(r, w, p) :
                                m.rid = 0 /\ compute_hash(m) # StoredMirrorHash(r)}}

\* C28: in every algorithm each record change that follows a successful
\* calendar operation is committed before the next calendar operation: a
\* run killed after any of its calls leaves at most one event, beyond those
\* that disagreed before the run, whose calendar state and committed record
\* disagree.
C28_CrashLeavesAtMostOneDisagreement ==
    \A direction \in Directions : \A k \in 1..MaxCrashAt :
       Run(direction, Start, CrashAt(k)).halt = "crash"
          => Cardinality(Disagreeing(Run(direction, Start, CrashAt(k)).work,
                                     Run(direction, Start, CrashAt(k)).pers,
                                     Run(direction, Start, CrashAt(k)).dur)
                            \ Disagreeing(work, personal, db)) <= 1


\* a record of a work event whose mirror is gone from the personal calendar
\* while the work event changed: the modify of the next forward run fails
\* with NotFound
MirrorGoneAndSourceChanged(r) ==
    /\ r.origin = "source"
    /\ MirrorsOf(r, work, personal) = {}
    /\ \E a \in AuthoritativeEvents(r, work, personal) :
          ForwardEligible(a, work) /\ compute_hash(a) # r.sh

\* C29: in a forward run, when the modify of a mirror fails with NotFound,
\* the run creates a mirror with a fresh uid, leaves one record for the
\* source uid, with the new mirror uid and origin = 'source', counts one
\* modified and no error, and does not call remove for the missing mirror.
C29_MissingMirrorIsRecreated ==
    [][(last'.kind = Forward /\ steps' = steps + 1 /\ faults' = faults)
          => \A r \in Rows(db) :
                MirrorGoneAndSourceChanged(r)
                   => /\ \E n \in Rows(db') :
                            /\ n.src = r.src /\ n.origin = "source"
                            /\ n.tgt # r.tgt
                            /\ n.tgt[1] \notin Uids(personal)
                            /\ MirrorsOf(n, work', personal') # {}
                      /\ Cardinality({n \in Rows(db') : n.src = r.src}) = 1
                      /\ (Len(db) = 1 /\ Len(work) = 1)
                            => /\ stats' = [added |-> 0, modified |-> 1, deleted |-> 0,
                                            errors |-> 0]
                               /\ calls'.pers = [create |-> 1, modify |-> 1, remove |-> 0]]_vars

\* the mirror of a changed work event had been deleted and a forward run
\* recreated it
C29_Witness ==
    /\ last.kind = Forward /\ last.clean /\ faults = 0
    /\ last.prev[1] \in {"edit", "delete"}
    /\ calls.pers = [create |-> 1, modify |-> 1, remove |-> 0]
    /\ stats.modified = 1
    /\ Len(db) = 1 /\ db[1].tgt[1] > FirstMirrorUid


\* a record whose authoritative event and mirror are both gone: the remove
\* of the next run fails with NotFound
BothGone(r) ==
    /\ AuthoritativeEvents(r, work, personal) = {}
    /\ MirrorsOf(r, work, personal) = {}

\* C30: in a forward and in a reverse run, when the authoritative event of
\* a record has vanished and the removal of its mirror fails with NotFound,
\* the record is dropped, deleted is incremented and no error is counted.
C30_NotFoundOnRemoveDropsRecord ==
    [][(last'.kind \in {Forward, Reverse} /\ steps' = steps + 1 /\ faults' = faults)
          => \A r \in Rows(db) :
                (Handles(last'.kind, r) /\ BothGone(r))
                   => /\ \A n \in Rows(db') : ~(n.src = r.src /\ n.tgt = r.tgt)
                      /\ Len(db) = 1 => stats'.deleted = 1 /\ stats'.errors = 0]_vars


\* a record whose authoritative event the bidirectional run finds and whose
\* mirror it does not find
MirrorMissing(r) ==
    /\ Authoritative(r, work, personal).uid # 0
    /\ Mirror(r, work, personal).uid = 0

\* the records of the authoritative event of r, with the origin of r, that
\* point at a mirror the step created
Recreated(r) ==
    {n \in CreatedRows : AuthKey(n) = AuthKey(r) /\ n.origin = r.origin}

\* C31: in a bidirectional run that no failure strikes, a record whose
\* mirror is missing and whose authoritative event is present is replaced
\* by exactly one record of the same origin that points at a newly created
\* mirror of the authoritative event; the pair is not processed again in
\* phase 2 or 3: when it is the only thing to do, the run issues that one
\* create and counts added = 1.
C31_MissingMirrorRecreatedOnce ==
    [][(last'.kind = TwoWay /\ steps' = steps + 1 /\ faults' = faults)
          => \A r \in Rows(db) :
                MirrorMissing(r)
                   => /\ Cardinality(Recreated(r)) = 1
                      /\ \A n \in Rows(db') : MirrorUid(n) # MirrorUid(r)
                      /\ \A n \in Recreated(r) :
                            /\ Mirror(n, work', personal').uid # 0
                            /\ is_managed_event(Mirror(n, work', personal'))
                            /\ Mirror(n, work', personal').summary
                                  = MirrorTitle(n, Authoritative(r, work, personal))
                      /\ Authoritative(r, work', personal') = Authoritative(r, work, personal)
                      /\ (Len(db) = 1 /\ Len(work) + Len(personal) = 1)
                            => /\ stats' = [added |-> 1, modified |-> 0, deleted |-> 0,
                                            errors |-> 0]
                               /\ calls'.work.create + calls'.pers.create = 1
                               /\ calls'.work.modify + calls'.pers.modify = 0
                               /\ calls'.work.remove + calls'.pers.remove = 0]_vars

\* the mirror of a tracked event had been deleted and a bidirectional run
\* recreated it
C31_Witness ==
    /\ last.kind = TwoWay /\ last.clean /\ faults = 0
    /\ last.prev = <<"delete", "mirror">>
    /\ stats.added = 1
    /\ Len(db) = 1 /\ MirrorUid(db[1]) > FirstMirrorUid
    /\ Mirror(db[1], work, personal).uid # 0


\* a record whose authoritative event is gone from its calendar while the
\* mirror is still there
AuthoritativeGone(r) ==
    /\ AuthoritativeEvents(r, work, personal) = {}
    /\ Mirror(r, work, personal).uid # 0

Dropped(r) == \A n \in Rows(db') : ~(n.src = r.src /\ n.tgt = r.tgt)

TotalCalls(c, kind) == c.work[kind] + c.pers[kind]

\* C32: in a bidirectional run that no failure strikes, a record whose
\* authoritative event is missing and whose mirror is present has its
\* mirror removed and is dropped, counting one deleted; a record both of
\* whose events are missing is dropped, and a run that has nothing else to
\* do issues no calendar operation and changes no counter.
C32_VanishedAuthoritativeRemovesMirror ==
    [][(last'.kind = TwoWay /\ steps' = steps + 1 /\ faults' = faults)
          => \A r \in Rows(db) :
                /\ AuthoritativeGone(r)
                      => /\ Dropped(r)
                         /\ MirrorsOf(r, work', personal') = {}
                         /\ (Len(db) = 1 /\ Len(work) + Len(personal) = 1)
                               => /\ stats' = [added |-> 0, modified |-> 0, deleted |-> 1,
                                               errors |-> 0]
                                  /\ TotalCalls(calls', "remove") = 1
                                  /\ TotalCalls(calls', "create") = 0
                                  /\ TotalCalls(calls', "modify") = 0
                /\ BothGone(r)
                      => /\ Dropped(r)
                         /\ (Len(db) = 1 /\ Len(work) + Len(personal) = 0)
                               => /\ stats' = ZeroStats
                                  /\ calls' = ZeroCalls]_vars

\* the source of a tracked pair had been deleted and a bidirectional run
\* removed the mirror and dropped the record
C32_Witness ==
    /\ last.kind = TwoWay /\ last.clean /\ faults = 0
    /\ last.prev = <<"delete", "own">>
    /\ stats.deleted = 1
    /\ TotalCalls(calls, "remove") = 1
    /\ db = <<>> /\ work = <<>> /\ personal = <<>>


IsValidException(x, uid) ==
    /\ x.rid # 0 /\ x.uid = uid
    /\ ~is_managed_event(x) /\ ~is_event_cancelled(x) /\ ~is_free_time(x)
    /\ x.start = x.rid

ValidExceptionDates(cal, uid) == {x.rid : x \in {y \in Events(cal) : IsValidException(y, uid)}}

\* the recurring masters of the user in a calendar
RecurringMasters(cal) ==
    {e \in Events(cal) : e.rid = 0 /\ e.rrule > 0 /\ ~is_managed_event(e)}

\* none of the exception events of the master is rescheduled
NoRescheduled(cal, e) ==
    \A x \in Events(cal) : (x.uid = e.uid /\ x.rid # 0) => x.start = x.rid

\* the records of a work master that the step wrote
WrittenFor(e) ==
    {n \in Rows(db') \ Rows(db) : n.origin = "source" /\ n.src = Key(e.uid, 0)}

\* C34: after a failure-free forward or bidirectional run, every record the
\* run wrote for a recurring work master (here: one without rescheduled
\* exceptions) stores the hash of the master with its valid-exception dates
\* removed from the exclusion dates, and the mirror carries those exclusion
\* dates.
C34_MasterHashedAndMirroredStripped ==
    [][(IsMirroringRun(last'.kind) /\ steps' = steps + 1 /\ last'.clean)
          => \A e \in {m \in RecurringMasters(work) : NoRescheduled(work, m)} :
             \A n \in WrittenFor(e) :
                /\ n.sh = compute_hash(
                             strip_exdates_for_dates(e, ValidExceptionDates(work, e.uid)))
                /\ Mirror(n, work', personal').uid # 0
                      => Mirror(n, work', personal').exdates
                            = e.exdates \ ValidExceptionDates(work, e.uid)]_vars


\* the exclusion dates of the master that the stored source hash leaves out
StrippedDates(e, n) == e.exdates \ n.sh.exdates

\* C35: after a failure-free bidirectional run, the exclusion dates removed
\* from a recurring work master before hashing are valid-exception dates:
\* each is the date of an exception event that is not managed, not
\* cancelled, not free time and not rescheduled.
C35_OnlyValidExceptionDatesStripped ==
    [][(last'.kind = TwoWay /\ steps' = steps + 1 /\ last'.clean)
          => \A e \in RecurringMasters(work) : \A n \in WrittenFor(e) :
                StrippedDates(e, n) \subseteq ValidExceptionDates(work, e.uid)]_vars


\* the exception events of the user in a calendar
ExceptionsOf(cal) == {x \in Events(cal) : x.rid # 0 /\ ~is_managed_event(x)}

\* the raw exclusion dates of the master of an exception
RawExclusions(cal, x) ==
    UNION {m.exdates : m \in {e \in Events(cal) : e.rid = 0 /\ e.uid = x.uid}}

\* declined or removed occurrence, as the spec defines it
Declined(cal, x) == x.rid \in RawExclusions(cal, x) /\ x.start = x.rid

\* the records of the exception under its compound key
RecordsOf(table, x) ==
    {n \in Rows(table) : n.src = Key(x.uid, x.rid) /\ n.origin = "source"}

\* the exception has no record yet, or the mirror of its record is in place
ExceptionUntouched(x) ==
    \A n \in RecordsOf(db, x) : MirrorsOf(n, work, personal) # {}

\* C36: after a failure-free forward run, an exception event that is not
\* cancelled and not free time has no record exactly when its occurrence
\* date is in the raw exclusion set of its master and its start date is
\* that date; otherwise it has one record under the compound key (uid,
\* occurrence date) whose mirror is an event of its own in the personal
\* calendar, with the start of the exception, whether or not the master is
\* mirrored; a cancelled or free-time exception has no record.
C36_ExceptionSkippedIffDeclined ==
    [][(last'.kind = Forward /\ steps' = steps + 1 /\ last'.clean)
          => \A x \in ExceptionsOf(work) :
                ExceptionUntouched(x)
                   => IF is_event_cancelled(x) \/ is_free_time(x) \/ Declined(work, x)
                      THEN RecordsOf(db', x) = {}
                      ELSE /\ Cardinality(RecordsOf(db', x)) = 1
                           /\ \A n \in RecordsOf(db', x) :
                                 /\ MirrorsOf(n, work', personal') # {}
                                 /\ \A m \in MirrorsOf(n, work', personal') :
                                       /\ is_managed_event(m)
                                       /\ m.rid = 0 /\ m.rrule = 0
                                       /\ m.start = x.start
                                 /\ \A o \in Rows(db') : o # n => o.tgt # n.tgt]_vars

\* a forward run mirrored a rescheduled exception under its compound key
\* and skipped the master, all of whose occurrences are excluded
C36_Witness ==
    /\ last.kind = Forward /\ last.clean
    /\ \E x \in ExceptionsOf(work) :
          /\ x.rid \in RawExclusions(work, x) /\ x.start # x.rid
          /\ Cardinality(RecordsOf(db, x)) = 1
          /\ \A n \in RecordsOf(db, x) : MirrorsOf(n, work, personal) # {}
          /\ \A n \in Rows(db) : n.src # Key(x.uid, 0)



\* ------------------------------------------------------------------------
\* Tenth specification: EventSanitizer.sanitize on iCalendar components.  A
\* VEVENT is the record of its properties and alarms, 0 (or {} for a
\* property that may occur several times) standing for an absent one;
\* form is the form of DTSTART ("floating", "utc" or "tzid") and
\* exdate_form that of the EXDATEs ("date" or "datetime").  sanitize above
\* is this function on the event records of the engine.
\* ------------------------------------------------------------------------
strip_props_KeepsStatus ==
    {"description", "location", "attach", "url", "organizer", "attendee", "rid", "xprops"}

\* sanitize.strip_props: DESCRIPTION, LOCATION, ATTACH, URL, ORGANIZER,
\* ATTENDEE, RECURRENCE-ID, STATUS, X-
strip_props ==
    {"description", "location", "attach", "url", "organizer", "attendee", "rid", "status",
     "xprops"}

multi_props == {"attach", "attendee", "xprops", "valarm", "categories"}

Absent(f) == IF f \in multi_props THEN {} ELSE 0

SourceVEvent(rrule, exdates, dtend, form) ==
    [uid |-> 1, summary |-> "A", start |-> 1, dtend |-> dtend, form |-> form,
     rrule |-> rrule, exdates |-> exdates, exdate_form |-> "date",
     description |-> 1, location |-> 1, attach |-> {1}, url |-> 1, organizer |-> 1,
     attendee |-> {1}, rid |-> 0, status |-> 1, xprops |-> {1}, valarm |-> {1},
     categories |-> {"team"}, class |-> "none", comment |-> 1]

\* sanitize.sanitize_vevent, statement by statement
sanitize_vevent(event, new_uid, mode) ==
    LET stripped == [f \in DOMAIN event |->
                        IF f = "uid" THEN new_uid
                        ELSE IF f \in strip_props THEN Absent(f)
                        ELSE IF f = "valarm" THEN {}
                        ELSE IF f = "summary" /\ mode = "busy" THEN "Busy"
                        ELSE event[f]]
        first == FirstValid(stripped)
        advanced ==
            IF first = stripped.start THEN stripped
            ELSE [stripped EXCEPT
                    !.start = first,
                    !.dtend = IF @ = 0 THEN 0 ELSE first + (@ - stripped.start),
                    !.form = IF @ = "tzid" THEN "tzid" ELSE "utc"]
        normalised ==
            IF advanced.form = "tzid" /\ advanced.exdates # {}
            THEN [advanced EXCEPT !.exdate_form = "datetime"]
            ELSE advanced
    IN  [normalised EXCEPT !.categories = {"CALENDAR-SYNC-MANAGED"}, !.class = "PRIVATE"]

\* EventSanitizer.sanitize on the parsed component: METHOD leaves a
\* VCALENDAR and each of its VEVENTs is sanitized; any other component is
\* returned as parsed
SanitizeComponent(comp, new_uid, mode) ==
    IF comp.kind = "VCALENDAR"
    THEN [comp EXCEPT !.method = 0,
                      !.vevents = [i \in 1..Len(@) |-> sanitize_vevent(@[i], new_uid, mode)]]
    ELSE IF comp.kind = "VEVENT"
    THEN [comp EXCEPT !.vevents = [i \in 1..Len(@) |-> sanitize_vevent(@[i], new_uid, mode)]]
    ELSE comp

\* the events sanitized: single events and daily series of up to MaxCount
\* occurrences with every set of excluded dates, with and without DTEND
SourceVEvents ==
    {SourceVEvent(n, x, t[1], t[2]) :
        n \in 0..MaxCount, x \in SUBSET (1..MaxCount),
        t \in {<<0, "floating">>, <<2, "utc">>, <<2, "tzid">>}}

SourceComponents ==
    {[kind |-> "VEVENT", method |-> 0, vevents |-> <<e>>] :
        e \in {v \in SourceVEvents : \A d \in v.exdates : d <= v.rrule}}
       \cup {[kind |-> "VCALENDAR", method |-> 1, vevents |-> <<e>>] :
                e \in {v \in SourceVEvents : v.form = "tzid" /\ v.rrule = MaxCount}}
       \cup {[kind |-> "VCALENDAR", method |-> 0,
              vevents |-> <<e, [e EXCEPT !.rid = 1, !.rrule = 0, !.exdates = {}]>>] :
                e \in {v \in SourceVEvents : v.form = "utc" /\ v.rrule = MaxCount}}

\* another value of a property: none at all (k = 1) or a different one
Alt(f, v, k) ==
    IF f = "summary" THEN "B"
    ELSE IF f = "class" THEN "PUBLIC"
    ELSE IF f = "categories" THEN v \cup {"other"}
    ELSE IF f \in {"form", "exdate_form", "exdates"} THEN v
    ELSE IF k = 1 /\ v # Absent(f) THEN Absent(f)
    ELSE IF f \in multi_props THEN v \cup {2}
    ELSE v + 1

\* what the mirror must not show: the stripped properties and, in busy
\* mode, the title
Sensitive ==
    {"description", "location", "attach", "url", "organizer", "attendee", "status", "rid",
     "xprops"}

Hidden(mode) == Sensitive \cup (IF mode = "busy" THEN {"summary"} ELSE {})

\* a second component: the first with any set of its hidden properties
\* changed or dropped in one VEVENT, or with one other property changed
SecondComponents(comp) ==
    {[comp EXCEPT !.vevents[1] = [f \in DOMAIN @ |-> IF f \in S THEN Alt(f, @[f], 2) ELSE @[f]]] :
        S \in SUBSET Hidden("busy")}
       \cup {[comp EXCEPT !.vevents[i] = [f \in DOMAIN @ |->
                                             IF f \in S THEN Alt(f, @[f], 1) ELSE @[f]]] :
                i \in 1..Len(comp.vevents),
                S \in {{f} : f \in Sensitive} \cup {Hidden("busy")}}
       \cup {[comp EXCEPT !.vevents[i][f] = Alt(f, @, 2)] :
                i \in 1..Len(comp.vevents), f \in DOMAIN comp.vevents[1]}

InitSanitize ==
    /\ work = <<>> /\ personal = <<>>
    /\ db = <<>>
    /\ stats = ZeroStats
    /\ calls = ZeroCalls
    /\ nextUid = FirstMirrorUid
    /\ last = [kind |-> <<"init", "init">>, clean |-> TRUE, halt |-> "no",
               prev |-> <<"init", "init">>, prevClean |-> TRUE, fetch |-> "none"]
    /\ steps = 0
    /\ faults = 0
    /\ initial = [work |-> work, pers |-> personal]
    /\ store = <<>>
    /\ clock = 0
    /\ schema = "current"
    /\ \E a \in SourceComponents : \E b \in SecondComponents(a) : \E mode \in {"normal", "busy"} :
          ret = [op |-> "input", a |-> a, b |-> b, mode |-> mode, ma |-> 0, mb |-> 0]

\* sanitize is called on both components with the same new uid and mode
Sanitize ==
    /\ ret.op = "input"
    /\ ret' = [ret EXCEPT !.op = "sanitize",
                          !.ma = SanitizeComponent(ret.a, nextUid, ret.mode),
                          !.mb = SanitizeComponent(ret.b, nextUid, ret.mode)]
    /\ steps' = steps + 1
    /\ UNCHANGED <<work, personal, db, stats, calls, nextUid, last, faults, initial, store,
                   clock, schema>>

NextSanitize == Sanitize

SpecSanitize == InitSanitize /\ [][NextSanitize]_vars

\* the properties in which two components differ
DifferIn(a, b) ==
    IF a.kind # b.kind \/ Len(a.vevents) # Len(b.vevents) THEN {"kind"}
    ELSE (IF a.method # b.method THEN {"method"} ELSE {})
            \cup {f \in DOMAIN a.vevents[1] :
                    \E i \in 1..Len(a.vevents) : a.vevents[i][f] # b.vevents[i][f]}

\* C37: sanitize returns identical mirrors for two source events that
\* differ only in description, location, attachments, URL, organizer,
\* attendees, status, RECURRENCE-ID or X- properties (in busy mode also in
\* title), and the mirror carries none of those properties
C37_HiddenFieldsNotObservable ==
    (ret.op = "sanitize" /\ DifferIn(ret.a, ret.b) \subseteq Hidden(ret.mode))
        => /\ ret.ma = ret.mb
           /\ \A i \in 1..Len(ret.ma.vevents) :
                 /\ \A f \in Sensitive : ret.ma.vevents[i][f] = Absent(f)
                 /\ ret.mode = "busy" => ret.ma.vevents[i].summary = "Busy"

C37_Witness ==
    /\ ret.op = "sanitize"
    /\ ret.mode = "busy"
    /\ DifferIn(ret.a, ret.b) = Hidden("busy")
    /\ ret.a.vevents[1].start # ret.ma.vevents[1].start
    /\ ret.ma = ret.mb


\* ------------------------------------------------------------------------
\* Eleventh specification: invocations with --dry-run on a state file an
\* earlier run left, legacy or current, while the user edits and deletes
\* events
\* ------------------------------------------------------------------------
DryKind(mode) ==
    CASE mode = "run" -> "dry-run"
      [] mode = "refresh" -> "dry-refresh"
      [] mode = "clear" -> "dry-clear"

\* CalendarSynchronizer.run with config.dry_run set
CalendarSynchronizer_dry_run(mode, direction) ==
    FinishOnFile(<<DryKind(mode), direction>>, Migration(mode),
                 Outcome(mode, direction, Migration(mode),
                         [StartFrom(work, personal, Load(Migration(mode).file, ThePair),
                                    nextUid) EXCEPT !.dry_run = TRUE]))

DryRunOnFile ==
    /\ steps < MaxSteps
    /\ \E mode \in Modes, direction \in Directions : CalendarSynchronizer_dry_run(mode, direction)

NextDryRun == DryRunOnFile \/ ExtEdit \/ ExtDelete

SpecDryRun == InitMigrate /\ [][NextDryRun]_vars

IsDry(kind) == kind[1] \in {"dry-run", "dry-refresh", "dry-clear"}

\* C38: an invocation with dry_run set, migration step included, issues no
\* create, modify or remove on either calendar and changes no stored record
C38_DryRunChangesOnlyCounters ==
    [][(IsDry(last'.kind) /\ steps' = steps + 1)
          => /\ calls' = ZeroCalls
             /\ work' = work /\ personal' = personal
             /\ SeqToSet(store') = SeqToSet(store)
             /\ SeqToSet(db') = SeqToSet(db)]_vars


\* ------------------------------------------------------------------------
\* Twelfth specification: the runs and the external changes after a first
\* run, against a backend that may refuse both to modify and to remove an
\* event (two calls in a row fail with an error other than NotFound)
\* ------------------------------------------------------------------------
Refused == [failAt |-> 1, crashAt |-> 0, failAlso |-> 2]

RunRefused ==
    /\ steps < MaxSteps
    /\ faults < MaxFaults
    /\ \E direction \in {"forward", "reverse"} :
          FinishWith(<<"run", direction>>, Refused, DefaultConfig,
                     Dispatch(direction, Start, Refused, DefaultConfig))

NextRefused ==
    \/ steps < MaxSteps /\ Next
    \/ RunRefused

SpecRefused == InitInstalled /\ [][NextRefused]_vars

\* the record of a one-way direction whose mirror was in the target
\* calendar and was replaced by a new one in this step
Replaced(r) ==
    /\ Mirror(r, work, personal).uid # 0
    /\ Authoritative(r, work', personal').uid # 0
    /\ Recreated(r) # {}

ManagedIn(cal) == {e \in Events(cal) : is_managed_event(e)}

\* C39: after a forward or reverse run whose modify of a tracked mirror
\* failed and whose recreate fallback succeeded, the old copy is gone from
\* the target calendar and the source event has one managed mirror there
C39_RecreateLeavesOneMirror ==
    [][(last'.kind \in {Forward, Reverse} /\ steps' = steps + 1)
          => \A r \in Rows(db) :
                (/\ r.origin = (IF last'.kind = Forward THEN "source" ELSE "target")
                 /\ Replaced(r))
                   => /\ Mirror(r, work', personal').uid = 0
                      /\ \A n \in Recreated(r) : Mirror(n, work', personal').uid # 0
                      /\ (Len(db) = 1 /\ Len(db') = 1)
                            => Cardinality(ManagedIn(IF r.origin = "source"
                                                     THEN personal' ELSE work')) = 1]_vars


\* ------------------------------------------------------------------------
\* Thirteenth specification: the runs that follow a first run which was
\* killed right after its first create, so that a mirror without a record
\* is in the target calendar; the user may have edited an event since
\* ------------------------------------------------------------------------
Interrupted(w, p, direction) ==
    Dispatch(direction, StartFrom(w, p, <<>>, FirstMirrorUid), CrashAt(1), DefaultConfig)

\* the calendars once the user has edited own event i of one of them
\* (0: none)
EditedSince(h, c, i) ==
    IF i = 0 \/ i > Len(CalOf(h, c)) THEN h
    ELSE IF CalOf(h, c)[i].managed THEN h
    ELSE SetCal(h, c, Edited(CalOf(h, c), i))

\* the calendars, the table and the next identifier the runs start from
Leftover(h, c, i) ==
    [work |-> EditedSince(h, c, i).work, pers |-> EditedSince(h, c, i).pers,
     dur |-> h.dur, next |-> h.next]

Leftovers ==
    { Leftover(Interrupted(t[1], t[2], t[3]), t[4], t[5]) :
        t \in {q \in {<<>>, <<Plain(1, "A")>>, <<Plain(1, "A"), Plain(2, "B")>>}
                      \X {<<>>, <<Plain(11, "A")>>} \X {"forward", "both"}
                      \X {"work", "pers"} \X (0..1) :
                  Len(q[1]) + Len(q[2]) > 0} }

InitOrphan ==
    /\ \E left \in Leftovers :
          /\ work = left.work
          /\ personal = left.pers
          /\ db = left.dur
          /\ nextUid = left.next
    /\ stats = ZeroStats
    /\ calls = ZeroCalls
    /\ last = [kind |-> <<"init", "init">>, clean |-> TRUE, halt |-> "no",
               prev |-> <<"init", "init">>, prevClean |-> TRUE, fetch |-> "none"]
    /\ steps = 0
    /\ faults = 0
    /\ initial = [work |-> work, pers |-> personal]
    /\ store = <<>>
    /\ clock = 0
    /\ ret = NoCall
    /\ schema = "current"

NextOrphan == RunForward \/ RunTwoWay

SpecOrphan == InitOrphan /\ [][NextOrphan]_vars

\* the record was linked to a mirror that was in the target calendar, with
\* no record, before the first of the runs
LinkedToOrphan(r) ==
    /\ MirrorUid(r) \in Uids(IF r.origin = "source" THEN initial.pers ELSE initial.work)
    /\ is_managed_event(Mirror(r, initial.work, initial.pers))

InLine(r) ==
    LET a == Authoritative(r, work, personal)
        m == Mirror(r, work, personal)
    IN (a.uid # 0 /\ m.uid # 0) => m.summary = MirrorTitle(r, a)

\* C40: once the run that linked a source event to a recovered orphan
\* mirror and the next run of the same algorithm have ended without
\* failure, the mirror shows the current source
C40_RecoveredMirrorInLine ==
    (/\ steps = 2
     /\ last.kind = last.prev /\ last.kind \in {Forward, TwoWay}
     /\ last.clean /\ last.prevClean)
        => \A r \in Rows(db) : LinkedToOrphan(r) => InLine(r)

====
